---- MODULE Spec2Model ----
(***************************************************************************)
(* NiiHut: the order risk engine (RiskEngine.evaluateOrder) and the two    *)
(* checkout orchestrators that call it (createCodOrder and                 *)
(* createCheckoutSession), and the fulfilment of a placed order by the     *)
(* admin actions and the Steadfast courier webhook, over the tables of     *)
(* the Supabase schema.                                                    *)
(*                                                                         *)
(* Time is counted in hours: created_at, expires_at and the clock are      *)
(* hours since an epoch that falls on a local midnight.                    *)
(***************************************************************************)
EXTENDS Integers, Sequences, FiniteSets, TLC

VARIABLES
    clock,                   \* Date.now(), in hours
    users,                   \* table users: id -> row or NoRow
    orders,                  \* table orders: sequence of rows, id = position
    blocked_phones,          \* table blocked_phones: phone_number -> row or NoRow
    blocked_entries,         \* table blocked_entries: set of rows
    risk_rules,              \* table risk_rules: key -> row or NoRow
    failing,                 \* store operations that currently fail
    ev,                      \* the last direct call of RiskEngine.evaluateOrder
    order_seq,               \* ids handed out by the orders table so far
    inventory,               \* table products: id -> inventory
    cart_items,              \* tables carts, cart_items: caller -> product -> quantity
    order_items,             \* table order_items: set of rows
    order_risk_assessments,  \* table order_risk_assessments: set of rows
    order_status_history,    \* table order_status_history: sequence of rows
    att,                     \* the checkout attempts: locals and position
    shipments,               \* table shipments: set of rows
    parcels,                 \* the parcels the courier created, in order
    confirmed,               \* the orders an admin set to confirmed
    ops                      \* the fulfilment operations: locals and position

stores == <<users, orders, blocked_phones, blocked_entries, risk_rules>>

shop == <<order_seq, inventory, cart_items, order_items,
          order_risk_assessments, order_status_history>>

fulfil == <<shipments, parcels, confirmed, ops>>

vars == <<clock, stores, failing, ev, shop, att, fulfil>>

NULL == "null"                \* a null string or id
NoRow == [null |-> TRUE]     \* data = null: no row, or the read failed
NoCount == 0 - 1             \* count = null: the count read failed
NoExpiry == 0 - 1            \* expires_at = null

----------------------------------------------------------------------------
(* Bounds of the model *)

MaxSeedOrders == 3           \* orders already in the table at the start
StartClock == 36             \* the clock at the start (noon of the second day)
MaxClock == 48               \* the clock stops advancing here
TickHours == 12              \* hours the clock advances in one step

UserIds == {"u1", "u2"}
Phones == {"p1", "p2"}
Reasons == {"fraud", "refused parcels"}
Amounts == {1000, 5000, 5001}

----------------------------------------------------------------------------
(* Program constants *)

THRESHOLD_FLAG == 30
THRESHOLD_BLOCK == 70
HIGH_VALUE_LIMIT == 5000
DayHours == 24
NewAccountPoints == 10
HighValuePoints == 20
VelocityHighPoints == 40
VelocityLowPoints == 10
BlockedPhonePoints == 100

RuleKeys == {"high_value_threshold", "max_daily_orders", "risk_threshold_flag",
             "risk_threshold_block", "new_user_penalty"}

\* the rows the migration seeds into risk_rules
SeededRules == [k \in RuleKeys |->
    CASE k = "high_value_threshold" -> [value |-> 5000]
      [] k = "max_daily_orders" -> [value |-> 3]
      [] k = "risk_threshold_flag" -> [value |-> 30]
      [] k = "risk_threshold_block" -> [value |-> 70]
      [] k = "new_user_penalty" -> [value |-> 10]]

----------------------------------------------------------------------------
(* Helpers *)

RECURSIVE SumPoints(_)
SumPoints(fs) == IF fs = <<>> THEN 0 ELSE Head(fs).points + SumPoints(Tail(fs))

RECURSIVE JoinFactors(_)
\* factors.map(f => f.factor).join(', ')
JoinFactors(fs) ==
    IF fs = <<>> THEN ""
    ELSE IF Len(fs) = 1 THEN Head(fs).factor
    ELSE Head(fs).factor \o ", " \o JoinFactors(Tail(fs))


\* supabase .single(): the row when exactly one row matches, else data = null
Single(rows) == IF Cardinality(rows) = 1 THEN CHOOSE r \in rows : TRUE ELSE NoRow

----------------------------------------------------------------------------
(* RiskEngine.evaluateOrder *)

\* 1. users.select('created_at').eq('id', userId).single()
ReadUser(userId) ==
    IF userId = NULL \/ "users" \in failing THEN NoRow
    ELSE IF userId \in DOMAIN users THEN users[userId] ELSE NoRow

\* variant: delivered orders are counted too
RecentOrdersCount_delivered(phone) ==
    IF "orders" \in failing THEN NoCount
    ELSE Cardinality({i \in 1..Len(orders) :
            /\ orders[i].phone_number = phone
            /\ orders[i].created_at >= clock - DayHours
            /\ orders[i].status # "cancelled"})

\* variant: only orders still pending are counted
RecentOrdersCount_pendingOnly(phone) ==
    IF "orders" \in failing THEN NoCount
    ELSE Cardinality({i \in 1..Len(orders) :
            /\ orders[i].phone_number = phone
            /\ orders[i].created_at >= clock - DayHours
            /\ orders[i].status = "pending"})

\* 4. orders count: eq phone_number, gte created_at yesterday,
\*    neq status cancelled, neq status delivered
RecentOrdersCount(phone) ==
    IF "orders" \in failing THEN NoCount
    ELSE Cardinality({i \in 1..Len(orders) :
            /\ orders[i].phone_number = phone
            /\ orders[i].created_at >= clock - DayHours
            /\ orders[i].status # "cancelled"
            /\ orders[i].status # "delivered"})

\* 5. blocked_phones.select('*').eq('phone_number', phone).single()
ReadBlockedPhone(phone) ==
    IF "blocked_phones" \in failing THEN NoRow ELSE blocked_phones[phone]

VelocityFactor(n) == "High Order Velocity (" \o ToString(n) \o " active)"
BlockedFactor(reason) == "Phone Number Blocked: " \o reason

\* what one check adds to the score and pushes onto the factors list
Nothing == [add |-> 0, factors |-> <<>>]

\* 1-2. new user check
NewUserCheck(userId) ==
    LET user == ReadUser(userId) IN
    IF user # NoRow /\ clock - user.created_at < DayHours
    THEN [add |-> NewAccountPoints,
          factors |-> <<[factor |-> "New Account (<24h)", points |-> NewAccountPoints]>>]
    ELSE Nothing

\* variant: the factor records other points than the score receives
HighValueCheck_drift(totalAmount) ==
    IF totalAmount > HIGH_VALUE_LIMIT
    THEN [add |-> HighValuePoints,
          factors |-> <<[factor |-> "High Value Order", points |-> HighValuePoints + 5]>>]
    ELSE Nothing

\* variant: an amount equal to the limit counts as high value
HighValueCheck_gte(totalAmount) ==
    IF totalAmount >= HIGH_VALUE_LIMIT
    THEN [add |-> HighValuePoints,
          factors |-> <<[factor |-> "High Value Order", points |-> HighValuePoints]>>]
    ELSE Nothing

\* 3. high value order
HighValueCheck(totalAmount) ==
    IF totalAmount > HIGH_VALUE_LIMIT
    THEN [add |-> HighValuePoints,
          factors |-> <<[factor |-> "High Value Order", points |-> HighValuePoints]>>]
    ELSE Nothing

\* 4. order velocity: recentOrders && recentOrders >= 2
VelocityCheck(phone) ==
    LET recentOrders == RecentOrdersCount(phone) IN
    IF recentOrders # NoCount /\ recentOrders # 0 /\ recentOrders >= 2
    THEN LET points == IF recentOrders >= 3 THEN VelocityHighPoints
                       ELSE VelocityLowPoints
         IN [add |-> points,
             factors |-> <<[factor |-> VelocityFactor(recentOrders), points |-> points]>>]
    ELSE Nothing

\* variant: a failed blocklist read counts as a blocked phone
BlockedPhoneCheck_failClosed(phone) ==
    LET blockedPhone == ReadBlockedPhone(phone) IN
    IF "blocked_phones" \in failing \/ blockedPhone # NoRow
    THEN [add |-> BlockedPhonePoints,
          factors |-> <<[factor |-> BlockedFactor(IF blockedPhone # NoRow
                                                  THEN blockedPhone.reason ELSE "fraud"),
                         points |-> BlockedPhonePoints]>>]
    ELSE Nothing

\* 5. blocked phone check
BlockedPhoneCheck(phone) ==
    LET blockedPhone == ReadBlockedPhone(phone) IN
    IF blockedPhone # NoRow
    THEN [add |-> BlockedPhonePoints,
          factors |-> <<[factor |-> BlockedFactor(blockedPhone.reason),
                         points |-> BlockedPhonePoints]>>]
    ELSE Nothing

\* variant: the block threshold is exclusive
FinalDecision_gt(score) ==
    IF score > THRESHOLD_BLOCK THEN "block"
    ELSE IF score >= THRESHOLD_FLAG THEN "flag"
    ELSE "approve"

\* final decision
FinalDecision(score) ==
    IF score >= THRESHOLD_BLOCK THEN "block"
    ELSE IF score >= THRESHOLD_FLAG THEN "flag"
    ELSE "approve"

\* variant: flagged is true for the flag decision only
evaluateOrder_flagOnly(userId, phone, totalAmount) ==
    LET c1 == NewUserCheck(userId)
        c2 == HighValueCheck(totalAmount)
        c3 == VelocityCheck(phone)
        c4 == BlockedPhoneCheck(phone)
        score == 0 + c1.add + c2.add + c3.add + c4.add
        factors == c1.factors \o c2.factors \o c3.factors \o c4.factors
        action == FinalDecision(score)
    IN [score |-> score,
        flagged |-> action = "flag",
        blocked |-> action = "block",
        factors |-> factors,
        action |-> action]

evaluateOrder(userId, phone, totalAmount) ==
    LET c1 == NewUserCheck(userId)
        c2 == HighValueCheck(totalAmount)
        c3 == VelocityCheck(phone)
        c4 == BlockedPhoneCheck(phone)
        score == 0 + c1.add + c2.add + c3.add + c4.add
        factors == c1.factors \o c2.factors \o c3.factors \o c4.factors
        action == FinalDecision(score)
    IN [score |-> score,
        flagged |-> action # "approve",
        blocked |-> action = "block",
        factors |-> factors,
        action |-> action]

NoEval == [n |-> 0]

\* variant: the evaluation stores the penalty it used in risk_rules
EvaluateOrder_writes(userId, phone, totalAmount) ==
    /\ ev' = [n |-> 1, userId |-> userId, phone |-> phone,
              totalAmount |-> totalAmount, at |-> clock,
              result |-> evaluateOrder(userId, phone, totalAmount),
              again |-> FALSE, same |-> TRUE]
    /\ risk_rules' = [risk_rules EXCEPT !["new_user_penalty"] =
                                           [value |-> NewAccountPoints]]
    /\ UNCHANGED <<fulfil, clock, users, orders, blocked_phones, blocked_entries,
                   failing, shop, att>>

\* variant: the score carries noise
EvaluateOrder_noisy(userId, phone, totalAmount) ==
    /\ \E noise \in {0, 1} :
         LET r == evaluateOrder(userId, phone, totalAmount)
             result == [r EXCEPT !.score = @ + noise]
             again == /\ ev.n = 1 /\ ev.userId = userId /\ ev.phone = phone
                      /\ ev.totalAmount = totalAmount /\ ev.at = clock
         IN ev' = [n |-> 1, userId |-> userId, phone |-> phone,
                   totalAmount |-> totalAmount, at |-> clock, result |-> result,
                   again |-> again, same |-> (again => ev.result = result)]
    /\ UNCHANGED <<fulfil, clock, stores, failing, shop, att>>

\* a call of the exported method with arbitrary arguments. The record keeps
\* the call and its result; `again` tells that the call before it had the
\* same arguments at the same clock reading, `same` that the two results
\* are equal.
EvaluateOrder(userId, phone, totalAmount) ==
    /\ LET result == evaluateOrder(userId, phone, totalAmount)
           again == /\ ev.n = 1 /\ ev.userId = userId /\ ev.phone = phone
                    /\ ev.totalAmount = totalAmount /\ ev.at = clock
       IN ev' = [n |-> 1, userId |-> userId, phone |-> phone,
                 totalAmount |-> totalAmount, at |-> clock, result |-> result,
                 again |-> again, same |-> (again => ev.result = result)]
    /\ UNCHANGED <<fulfil, clock, stores, failing, shop, att>>

\* time passes
Tick ==
    /\ clock < MaxClock
    /\ clock' = clock + TickHours
    /\ UNCHANGED <<fulfil, stores, failing, ev, shop, att>>

----------------------------------------------------------------------------
(* The checkout orchestrators: shared pieces *)

Attempts == {"a1", "a2"}
Guest == "guest"                         \* a caller with no signed-in user
Callers == {"u1", Guest}
ProductSeq == <<"prodA", "prodB">>
Products == {"prodA", "prodB"}
Price == [prodA |-> 1000, prodB |-> 5000]
ValidPhones == Phones                    \* the strings /^(\+88)?01[3-9]\d{8}$/ accepts
PhoneArgs == Phones \cup {"12345"}
InitStock == 2

COD_DELIVERY_FEE == 80
SESSION_DELIVERY_FEE == 60
DEFAULT_MAX_DAILY == 3

NoRisk == [none |-> TRUE]
NoResult == [none |-> TRUE]

Idle == [kind |-> "none", pc |-> "idle", caller |-> NULL, phone |-> NULL,
         userId |-> NULL, items |-> <<>>, totalAmount |-> 0, risk |-> NoRisk,
         initialStatus |-> NULL, orderId |-> 0, result |-> NoResult,
         steps |-> <<>>, dailyAtStart |-> 0, recentSeen |-> 0, seqAtEval |-> 0,
         decFailed |-> {}]

\* history of an attempt, read by no step: steps lists the checks and the
\* evaluation in the order they ran, dailyAtStart is the number of orders
\* the customer had placed since local midnight when the attempt began,
\* recentSeen is the count the velocity read of its evaluation returned,
\* seqAtEval the last order id handed out when it evaluated, decFailed the
\* items whose inventory decrement returned an error
OrdersToday(userId) ==
    Cardinality({i \in 1..Len(orders) :
        orders[i].user_id = userId /\ orders[i].created_at >= clock - (clock % 24)})

\* the attempts are interchangeable: a2 is the one that begins second
MayBegin(a) == att[a].pc = "idle" /\ (a = "a2" => att["a1"].pc # "idle")

Failure(msg) == [success |-> FALSE, error |-> msg, orderId |-> 0]
Success(id) == [success |-> TRUE, error |-> NULL, orderId |-> id]

RECURSIVE Subtotal(_)
Subtotal(items) ==
    IF items = <<>> THEN 0
    ELSE Head(items).price * Head(items).quantity + Subtotal(Tail(items))

\* variant: the stock is not checked
FirstShort_unchecked(items) == 0

\* the first item the stock read with it does not cover, 0 when there is none
FirstShort(items) ==
    LET short == {i \in 1..Len(items) : items[i].inventory < items[i].quantity}
    IN IF short = {} THEN 0 ELSE CHOOSE i \in short : \A j \in short : i <= j

\* the rows of a product -> quantity map, each with the product as read now
ItemsOf(qty) ==
    LET all == [i \in 1..Len(ProductSeq) |->
                   [product_id |-> ProductSeq[i], quantity |-> qty[ProductSeq[i]],
                    price |-> Price[ProductSeq[i]],
                    inventory |-> inventory[ProductSeq[i]]]]
    IN SelectSeq(all, LAMBDA it : it.quantity > 0)

OrderRow(id, userId, total, fee, status, phone, notes) ==
    [id |-> id, user_id |-> userId, phone_number |-> phone, total_amount |-> total,
     delivery_fee |-> fee, status |-> status, admin_notes |-> notes,
     created_at |-> clock]

ItemRows(id, items) ==
    {[order_id |-> id, product_id |-> items[i].product_id,
      quantity |-> items[i].quantity, price_at_purchase |-> items[i].price] :
        i \in 1..Len(items)}

\* orders.delete().eq('id', id), with ON DELETE CASCADE on the dependent tables
DeleteOrder(id) ==
    /\ orders' = SelectSeq(orders, LAMBDA o : o.id # id)
    /\ order_items' = {r \in order_items : r.order_id # id}
    /\ order_risk_assessments' = {r \in order_risk_assessments : r.order_id # id}
    /\ order_status_history' = SelectSeq(order_status_history, LAMBDA h : h.order_id # id)

Finish(a, res) == [att[a] EXCEPT !.pc = "done", !.result = res]

----------------------------------------------------------------------------
(* createCodOrder *)

\* resolveUserId: the users row of the signed-in Clerk user
resolveUserId(caller) ==
    IF caller = Guest \/ "users" \in failing THEN NULL
    ELSE IF caller \in DOMAIN users /\ users[caller] # NoRow THEN caller ELSE NULL

\* getCart: the caller's cart with its items and their products (every
\* caller has one cart; the merge of a guest cart into it is left out)
getCart(caller) == [id |-> caller, items |-> ItemsOf(cart_items[caller])]

\* the note of a flagged order (the leading warning sign is left out)
CodFlagNote(r) ==
    "Flagged (score: " \o ToString(r.score) \o "): " \o JoinFactors(r.factors)

\* steps 1-3: resolve the user, read the cart, validate inventory, total
StartCod(a, caller, phone) ==
    /\ MayBegin(a)
    /\ LET cart == getCart(caller)
           short == FirstShort(cart.items)
           begun == [att[a] EXCEPT !.kind = "cod", !.caller = caller, !.phone = phone,
                                   !.userId = resolveUserId(caller), !.items = cart.items,
                                   !.dailyAtStart = OrdersToday(resolveUserId(caller))]
       IN att' = [att EXCEPT ![a] =
            IF cart.items = <<>>
            THEN [begun EXCEPT !.pc = "done", !.result = Failure("Cart is empty")]
            ELSE IF short # 0
            THEN [begun EXCEPT !.pc = "done",
                    !.result = Failure("\"" \o cart.items[short].product_id \o "\" only has "
                                       \o ToString(cart.items[short].inventory)
                                       \o " units in stock.")]
            ELSE [begun EXCEPT !.pc = "risk",
                    !.totalAmount = Subtotal(cart.items) + COD_DELIVERY_FEE,
                    !.steps = <<"compute_total">>]]
    /\ UNCHANGED <<fulfil, clock, stores, failing, ev, shop>>

\* variant: a blocked result does not stop the checkout
CodRisk_noReject(a) ==
    /\ att[a].kind = "cod" /\ att[a].pc = "risk"
    /\ LET r == evaluateOrder(att[a].userId, att[a].phone, att[a].totalAmount)
       IN att' = [att EXCEPT ![a] =
                    [att[a] EXCEPT !.risk = r, !.steps = Append(@, "evaluate"),
                        !.recentSeen = RecentOrdersCount(att[a].phone),
                        !.seqAtEval = order_seq,
                        !.pc = "insert_order",
                        !.initialStatus = IF r.flagged THEN "pending_confirmation"
                                          ELSE "pending"]]
    /\ UNCHANGED <<fulfil, clock, stores, failing, ev, shop>>

\* steps 4-5: risk analysis, reject when blocked, choose the initial status
CodRisk(a) ==
    /\ att[a].kind = "cod" /\ att[a].pc = "risk"
    /\ LET r == evaluateOrder(att[a].userId, att[a].phone, att[a].totalAmount)
           seen == [att[a] EXCEPT !.risk = r, !.steps = Append(@, "evaluate"),
                                  !.recentSeen = RecentOrdersCount(att[a].phone),
                                  !.seqAtEval = order_seq]
       IN att' = [att EXCEPT ![a] =
            IF r.blocked
            THEN [seen EXCEPT !.pc = "done",
                    !.result = Failure("This order could not be processed. Please contact support.")]
            ELSE [seen EXCEPT !.pc = "insert_order",
                    !.initialStatus = IF r.flagged THEN "pending_confirmation"
                                      ELSE "pending"]]
    /\ UNCHANGED <<fulfil, clock, stores, failing, ev, shop>>

\* step 6: create the order
CodInsertOrder(a) ==
    /\ att[a].kind = "cod" /\ att[a].pc = "insert_order"
    /\ IF "orders.insert" \in failing
       THEN /\ att' = [att EXCEPT ![a] = Finish(a, Failure("Failed to create order: Unknown"))]
            /\ UNCHANGED <<fulfil, stores, shop>>
       ELSE LET id == order_seq + 1 IN
            /\ order_seq' = id
            /\ orders' = Append(orders,
                  OrderRow(id, att[a].userId, att[a].totalAmount, COD_DELIVERY_FEE,
                           att[a].initialStatus, att[a].phone,
                           IF att[a].risk.flagged THEN CodFlagNote(att[a].risk) ELSE NULL))
            /\ att' = [att EXCEPT ![a].orderId = id, ![a].pc = "insert_items"]
            /\ UNCHANGED <<fulfil, users, blocked_phones, blocked_entries, risk_rules,
                           inventory, cart_items, order_items,
                           order_risk_assessments, order_status_history>>
    /\ UNCHANGED <<fulfil, clock, failing, ev>>

\* step 7: create the order items, roll the order back when that fails
CodInsertItems(a) ==
    /\ att[a].kind = "cod" /\ att[a].pc = "insert_items"
    /\ IF "order_items.insert" \in failing
       THEN /\ DeleteOrder(att[a].orderId)
            /\ att' = [att EXCEPT ![a] = Finish(a, Failure("Failed to save order items"))]
       ELSE /\ order_items' = order_items \cup ItemRows(att[a].orderId, att[a].items)
            /\ att' = [att EXCEPT ![a].pc = "decrement"]
            /\ UNCHANGED <<fulfil, orders, order_risk_assessments, order_status_history>>
    /\ UNCHANGED <<fulfil, clock, users, blocked_phones, blocked_entries, risk_rules,
                   failing, ev, order_seq, inventory, cart_items>>

\* the decrement_inventory function of the database
decrement_inventory(inv, p_product_id, p_quantity) ==
    [inv EXCEPT ![p_product_id] = @ - p_quantity]

RECURSIVE DecrementAll(_, _, _, _)
\* the loop over the cart items; the calls in `failed` return an error
DecrementAll(inv, items, i, failed) ==
    IF i > Len(items) THEN inv
    ELSE DecrementAll(IF i \in failed THEN inv
                      ELSE decrement_inventory(inv, items[i].product_id, items[i].quantity),
                      items, i + 1, failed)

\* variant: a failed decrement rolls the order back and ends the checkout
CodDecrement_abort(a) ==
    /\ att[a].kind = "cod" /\ att[a].pc = "decrement"
    /\ \E failed \in SUBSET (1..Len(att[a].items)) :
          /\ failed # {} => "decrement_inventory" \in failing
          /\ IF failed # {}
             THEN /\ DeleteOrder(att[a].orderId)
                  /\ att' = [att EXCEPT ![a] =
                        [att[a] EXCEPT !.decFailed = failed, !.pc = "done",
                                       !.result = Failure("Failed to update inventory")]]
                  /\ UNCHANGED inventory
             ELSE /\ inventory' = DecrementAll(inventory, att[a].items, 1, failed)
                  /\ att' = [att EXCEPT ![a].pc = "history"]
                  /\ UNCHANGED <<fulfil, orders, order_items, order_risk_assessments,
                                 order_status_history>>
    /\ UNCHANGED <<fulfil, clock, users, blocked_phones, blocked_entries, risk_rules,
                   failing, ev, order_seq, cart_items>>

\* step 7, second half: decrement inventory, an error is only logged. The
\* calls are awaited one after the other; each is one atomic update and the
\* updates commute, so the loop is one step.
CodDecrement(a) ==
    /\ att[a].kind = "cod" /\ att[a].pc = "decrement"
    /\ \E failed \in SUBSET (1..Len(att[a].items)) :
          /\ failed # {} => "decrement_inventory" \in failing
          /\ inventory' = DecrementAll(inventory, att[a].items, 1, failed)
          /\ att' = [att EXCEPT ![a].pc = "history", ![a].decFailed = failed]
    /\ UNCHANGED <<fulfil, clock, stores, failing, ev, order_seq, cart_items, order_items,
                   order_risk_assessments, order_status_history>>

\* step 8: record the initial status history
CodHistory(a) ==
    /\ att[a].kind = "cod" /\ att[a].pc = "history"
    /\ order_status_history' = Append(order_status_history,
          [order_id |-> att[a].orderId, status |-> att[a].initialStatus,
           notes |-> IF att[a].risk.flagged THEN "Auto-flagged by risk engine"
                     ELSE "Order placed via COD"])
    /\ att' = [att EXCEPT ![a].pc = "clear_cart"]
    /\ UNCHANGED <<fulfil, clock, stores, failing, ev, order_seq, inventory, cart_items,
                   order_items, order_risk_assessments>>

\* variant: the success tells the customer that the order awaits a review
CodClearCart_tellsFlag(a) ==
    /\ att[a].kind = "cod" /\ att[a].pc = "clear_cart"
    /\ cart_items' = [cart_items EXCEPT ![att[a].caller] = [p \in Products |-> 0]]
    /\ att' = [att EXCEPT ![a] =
                  Finish(a, [success |-> TRUE,
                             error |-> IF att[a].risk.flagged THEN "Awaiting review"
                                       ELSE NULL,
                             orderId |-> att[a].orderId])]
    /\ UNCHANGED <<fulfil, clock, stores, failing, ev, order_seq, inventory, order_items,
                   order_risk_assessments, order_status_history>>

\* step 9: clear the cart and report success
CodClearCart(a) ==
    /\ att[a].kind = "cod" /\ att[a].pc = "clear_cart"
    /\ cart_items' = [cart_items EXCEPT ![att[a].caller] = [p \in Products |-> 0]]
    /\ att' = [att EXCEPT ![a] = Finish(a, Success(att[a].orderId))]
    /\ UNCHANGED <<fulfil, clock, stores, failing, ev, order_seq, inventory, order_items,
                   order_risk_assessments, order_status_history>>

----------------------------------------------------------------------------
(* createCheckoutSession *)

\* 2a. blocked_entries: type phone or user_id, value in [phone, user.id],
\*     severity hard_block, .single()
ReadHardBlock(phone, userId) ==
    IF "blocked_entries" \in failing THEN NoRow
    ELSE Single({e \in blocked_entries :
                    /\ e.type \in {"phone", "user_id"}
                    /\ e.value \in {phone, userId}
                    /\ e.severity = "hard_block"})

\* today.setHours(0,0,0,0)
Midnight == clock - (clock % DayHours)

\* 2b. orders count: eq user_id, gte created_at today
DailyOrdersCount(userId) ==
    IF "orders" \in failing THEN NoCount
    ELSE Cardinality({i \in 1..Len(orders) :
            /\ orders[i].user_id = userId
            /\ orders[i].created_at >= Midnight})

\* risk_rules.select('value').eq('key', 'max_daily_orders').single()
MAX_DAILY ==
    LET maxDailyOrdersRule ==
            IF "risk_rules" \in failing THEN NoRow ELSE risk_rules["max_daily_orders"]
    IN IF maxDailyOrdersRule # NoRow THEN maxDailyOrdersRule.value
       ELSE DEFAULT_MAX_DAILY

SessionFlagNote(r) == "Flagged by Risk Engine (Score: " \o ToString(r.score) \o ")"

\* the sign-in check and 1. validation
StartSession(a, caller, phone, cartItems) ==
    /\ MayBegin(a)
    /\ LET begun == [att[a] EXCEPT !.kind = "session", !.caller = caller, !.phone = phone,
                                   !.items = cartItems,
                                   !.dailyAtStart = OrdersToday(caller)]
       IN att' = [att EXCEPT ![a] =
            IF caller = Guest
            THEN [begun EXCEPT !.pc = "done",
                    !.result = Failure("Must be logged in to checkout")]
            ELSE IF phone \notin ValidPhones
            THEN [begun EXCEPT !.pc = "done", !.userId = caller,
                    !.result = Failure("Invalid Bangladesh phone number")]
            ELSE [begun EXCEPT !.pc = "blocklist", !.userId = caller]]
    /\ UNCHANGED <<fulfil, clock, stores, failing, ev, shop>>

\* 2a. check the hard blocklist (fast fail)
SessBlocklist(a) ==
    /\ att[a].kind = "session" /\ att[a].pc = "blocklist"
    /\ LET blocked == ReadHardBlock(att[a].phone, att[a].userId)
           seen == [att[a] EXCEPT !.steps = Append(@, "blocklist_check")]
       IN att' = [att EXCEPT ![a] =
            IF blocked # NoRow
            THEN [seen EXCEPT !.pc = "done",
                    !.result = Failure("You are restricted from placing orders: "
                                       \o blocked.reason)]
            ELSE [seen EXCEPT !.pc = "daily"]]
    /\ UNCHANGED <<fulfil, clock, stores, failing, ev, shop>>

\* 2b. check the daily order limit: dailyOrders && dailyOrders >= MAX_DAILY
SessDailyLimit(a) ==
    /\ att[a].kind = "session" /\ att[a].pc = "daily"
    /\ LET dailyOrders == DailyOrdersCount(att[a].userId)
           seen == [att[a] EXCEPT !.steps = Append(@, "daily_limit_check")]
       IN att' = [att EXCEPT ![a] =
            IF dailyOrders # NoCount /\ dailyOrders # 0 /\ dailyOrders >= MAX_DAILY
            THEN [seen EXCEPT !.pc = "done",
                    !.result = Failure("Daily order limit reached (" \o ToString(MAX_DAILY)
                                       \o "). Please try again tomorrow.")]
            ELSE [seen EXCEPT !.pc = "cart"]]
    /\ UNCHANGED <<fulfil, clock, stores, failing, ev, shop>>

\* 3. process the cart and calculate the total
SessCart(a) ==
    /\ att[a].kind = "session" /\ att[a].pc = "cart"
    /\ LET items == [i \in 1..Len(att[a].items) |->
                        [att[a].items[i] EXCEPT
                            !.inventory = inventory[att[a].items[i].product_id]]]
           short == FirstShort(items)
       IN att' = [att EXCEPT ![a] =
            IF short # 0
            THEN [att[a] EXCEPT !.pc = "done",
                    !.result = Failure("Insufficient inventory for "
                                       \o items[short].product_id)]
            ELSE [att[a] EXCEPT !.pc = "risk", !.items = items,
                    !.totalAmount = Subtotal(items) + SESSION_DELIVERY_FEE,
                    !.steps = Append(@, "compute_total")]]
    /\ UNCHANGED <<fulfil, clock, stores, failing, ev, shop>>

\* 4-5. run the risk assessment, reject when blocked, choose the status
SessRisk(a) ==
    /\ att[a].kind = "session" /\ att[a].pc = "risk"
    /\ LET r == evaluateOrder(att[a].userId, att[a].phone, att[a].totalAmount)
           seen == [att[a] EXCEPT !.risk = r, !.steps = Append(@, "evaluate"),
                                  !.recentSeen = RecentOrdersCount(att[a].phone),
                                  !.seqAtEval = order_seq]
       IN att' = [att EXCEPT ![a] =
            IF r.blocked
            THEN [seen EXCEPT !.pc = "done",
                    !.result = Failure("Order rejected due to high risk assessment.")]
            ELSE [seen EXCEPT !.pc = "insert_order",
                    !.initialStatus = IF r.flagged THEN "flagged_for_review"
                                      ELSE "pending_confirmation"]]
    /\ UNCHANGED <<fulfil, clock, stores, failing, ev, shop>>

\* 6. insert the order
SessInsertOrder(a) ==
    /\ att[a].kind = "session" /\ att[a].pc = "insert_order"
    /\ IF "orders.insert" \in failing
       THEN /\ att' = [att EXCEPT ![a] = Finish(a, Failure("Order creation failed: Unknown"))]
            /\ UNCHANGED <<fulfil, stores, shop>>
       ELSE LET id == order_seq + 1 IN
            /\ order_seq' = id
            /\ orders' = Append(orders,
                  OrderRow(id, att[a].userId, att[a].totalAmount, SESSION_DELIVERY_FEE,
                           att[a].initialStatus, att[a].phone,
                           IF att[a].risk.flagged THEN SessionFlagNote(att[a].risk)
                           ELSE NULL))
            /\ att' = [att EXCEPT ![a].orderId = id, ![a].pc = "assessment"]
            /\ UNCHANGED <<fulfil, users, blocked_phones, blocked_entries, risk_rules,
                           inventory, cart_items, order_items,
                           order_risk_assessments, order_status_history>>
    /\ UNCHANGED <<fulfil, clock, failing, ev>>

\* 7. store the risk assessment result when the score is positive
SessAssessment(a) ==
    /\ att[a].kind = "session" /\ att[a].pc = "assessment"
    /\ order_risk_assessments' =
          IF att[a].risk.score > 0
          THEN order_risk_assessments \cup
                  {[order_id |-> att[a].orderId, risk_score |-> att[a].risk.score,
                    factors |-> att[a].risk.factors]}
          ELSE order_risk_assessments
    /\ att' = [att EXCEPT ![a].pc = "insert_items"]
    /\ UNCHANGED <<fulfil, clock, stores, failing, ev, order_seq, inventory, cart_items,
                   order_items, order_status_history>>

\* 8. create the order items; a failure throws and rolls nothing back
SessInsertItems(a) ==
    /\ att[a].kind = "session" /\ att[a].pc = "insert_items"
    /\ IF "order_items.insert" \in failing
       THEN /\ att' = [att EXCEPT ![a] =
                         Finish(a, [success |-> FALSE,
                                    error |-> "Order items creation failed: Unknown",
                                    orderId |-> att[a].orderId])]
            /\ UNCHANGED order_items
       ELSE /\ order_items' = order_items \cup ItemRows(att[a].orderId, att[a].items)
            /\ att' = [att EXCEPT ![a].pc = "stats"]
    /\ UNCHANGED <<fulfil, clock, stores, failing, ev, order_seq, inventory, cart_items,
                   order_risk_assessments, order_status_history>>

\* 9. update the user stats: read total_orders, write it back plus one
SessUserStats(a) ==
    /\ att[a].kind = "session" /\ att[a].pc = "stats"
    /\ LET userData == ReadUser(att[a].userId)
       IN users' = IF userData # NoRow
                   THEN [users EXCEPT ![att[a].userId].total_orders = @ + 1]
                   ELSE users
    /\ att' = [att EXCEPT ![a].pc = "history"]
    /\ UNCHANGED <<fulfil, clock, orders, blocked_phones, blocked_entries, risk_rules,
                   failing, ev, shop>>

\* 10. log the status history
SessHistory(a) ==
    /\ att[a].kind = "session" /\ att[a].pc = "history"
    /\ order_status_history' = Append(order_status_history,
          [order_id |-> att[a].orderId, status |-> att[a].initialStatus,
           notes |-> "Order placed via website"])
    /\ att' = [att EXCEPT ![a].pc = "clear_cart"]
    /\ UNCHANGED <<fulfil, clock, stores, failing, ev, order_seq, inventory, cart_items,
                   order_items, order_risk_assessments>>

\* 11-12. clear the cart and redirect to the order
SessClearCart(a) ==
    /\ att[a].kind = "session" /\ att[a].pc = "clear_cart"
    /\ cart_items' = [cart_items EXCEPT ![att[a].caller] = [p \in Products |-> 0]]
    /\ att' = [att EXCEPT ![a] = Finish(a, Success(att[a].orderId))]
    /\ UNCHANGED <<fulfil, clock, stores, failing, ev, order_seq, inventory, order_items,
                   order_risk_assessments, order_status_history>>

----------------------------------------------------------------------------
(* Fulfilment: the admin actions, the courier and its webhook *)

OpSlots == {"o1", "o2"}      \* the fulfilment operations that may overlap
OrderArgs == {1, 2}          \* the order ids an admin passes
MAX_RETRIES == 3
FirstConsignment == 101      \* the first consignment id the courier hands out
CourierStatuses == {"in_transit", "delivered", "DELIVERED", "hold"}

IdleOp == [kind |-> "none", pc |-> "idle", orderId |-> 0, consignment |-> 0,
           courierStatus |-> NULL, seen |-> NULL, newStatus |-> NULL,
           notes |-> NULL, attempts |-> 0, calls |-> 0, response |-> 0,
           result |-> NoResult, appended |-> 0, updated |-> FALSE,
           hadShipment |-> FALSE]

\* history of an operation, read by no step: calls counts its calls of the
\* courier's create-order API, appended the history records it inserted,
\* updated tells whether it wrote the orders table, hadShipment whether a
\* shipment row of the order existed when it began

NoFulfilment ==
    /\ shipments = {}
    /\ parcels = <<>>
    /\ confirmed = {}
    /\ ops = [o \in OpSlots |-> IdleOp]

\* the operations are interchangeable: o2 is the one that begins second
MayStart(o) == ops[o].pc = "idle" /\ (o = "o2" => ops["o1"].pc # "idle")

OpFailure(msg) == [success |-> FALSE, error |-> msg]
OpSuccess == [success |-> TRUE, error |-> NULL]
End(o, res) == [ops[o] EXCEPT !.pc = "done", !.result = res]

\* orders.select().eq('id', id).single()
FindOrder(id) ==
    IF \E i \in 1..Len(orders) : orders[i].id = id
    THEN orders[CHOOSE i \in 1..Len(orders) : orders[i].id = id]
    ELSE NoRow

\* orders.update({ status }).eq('id', id)
WithStatus(id, status) ==
    [i \in 1..Len(orders) |->
        IF orders[i].id = id THEN [orders[i] EXCEPT !.status = status] ELSE orders[i]]

\* orders.update({ status, admin_notes }).eq('id', id)
WithStatusAndNotes(id, status, notes) ==
    [i \in 1..Len(orders) |->
        IF orders[i].id = id
        THEN [orders[i] EXCEPT !.status = status, !.admin_notes = notes]
        ELSE orders[i]]

\* `Steadfast Consignment: ${consignmentId}`, of a response that carries no
\* tracking code
ConsignmentNote(c) == "Steadfast Consignment: " \o ToString(c)

\* the consignment ids a note of the model can hold
Consignments == FirstConsignment..(FirstConsignment + 2 * Cardinality(OpSlots))

\* admin_notes ILIKE '%Consignment: <c>%'; the ids of the model have the same
\* number of digits, so no id is a prefix of another
MentionsConsignment(notes, c) == c \in Consignments /\ notes = ConsignmentNote(c)

\* admin_notes ILIKE '%<c>%'; none of the other notes of the model holds the
\* digits of a consignment id
MentionsId(notes, c) == c \in Consignments /\ notes = ConsignmentNote(c)

\* admin_notes.match(/Consignment: (\w+)/), 0 when there is no match
ConsignmentIn(notes) ==
    IF \E c \in Consignments : notes = ConsignmentNote(c)
    THEN CHOOSE c \in Consignments : notes = ConsignmentNote(c)
    ELSE 0

\* .ilike('admin_notes', ...).single() over the rows that match: the one
\* matching row, NoRow when no row or more than one row matches
SingleOrder(hits) ==
    IF Cardinality(hits) = 1 THEN orders[CHOOSE i \in hits : TRUE] ELSE NoRow

\* String.prototype.toLowerCase, on the courier statuses of the model
toLowerCase(s) == IF s = "DELIVERED" THEN "delivered" ELSE s

\* mapSteadfastStatus of the webhook route, NULL for an unknown status
mapSteadfastStatus(courierStatus) ==
    LET status == toLowerCase(courierStatus) IN
    CASE status \in {"in_review", "pending"} -> "processing"
      [] status \in {"in_transit", "delivered_approval_pending"} -> "shipped"
      [] status \in {"delivered", "partial_delivered"} -> "delivered"
      [] status = "cancelled" -> "cancelled"
      [] status = "returned_to_merchant" -> "returned"
      [] OTHER -> NULL

\* STEADFAST_STATUS_MAP[status], NULL for a key the map does not hold
STEADFAST_STATUS_MAP(status) ==
    CASE status \in {"in_review", "pending", "hold", "unknown"} -> "processing"
      [] status \in {"delivered", "partial_delivered"} -> "delivered"
      [] status = "cancelled" -> "cancelled"
      [] OTHER -> NULL

\* the courier creates a parcel and answers with its consignment id
NextConsignment == FirstConsignment + Len(parcels)

(* createShipment *)

\* steps 1-2: auth check, fetch the order
ShipStart(o, orderId) ==
    /\ MayStart(o)
    /\ LET began == [ops[o] EXCEPT !.kind = "createShipment", !.orderId = orderId,
                        !.hadShipment = \E s \in shipments : s.order_id = orderId]
       IN ops' = [ops EXCEPT ![o] =
                     IF FindOrder(orderId) = NoRow
                     THEN [began EXCEPT !.pc = "done",
                                        !.result = OpFailure("Order not found")]
                     ELSE [began EXCEPT !.pc = "idempotency"]]
    /\ UNCHANGED <<clock, stores, failing, ev, shop, att, shipments, parcels, confirmed>>

\* step 3: idempotency check
ShipIdempotency(o) ==
    /\ ops[o].kind = "createShipment" /\ ops[o].pc = "idempotency"
    /\ ops' = [ops EXCEPT ![o] =
                  IF \E s \in shipments : s.order_id = ops[o].orderId
                  THEN End(o, OpFailure("Shipment already exists for this order"))
                  ELSE [ops[o] EXCEPT !.pc = "courier"]]
    /\ UNCHANGED <<clock, stores, failing, ev, shop, att, shipments, parcels, confirmed>>

\* steps 4-5: call the courier; a failure is logged in courier_logs (a table
\* nothing reads) and thrown
ShipCourier(o) ==
    /\ ops[o].kind = "createShipment" /\ ops[o].pc = "courier"
    /\ \E ok \in BOOLEAN :
          IF ok
          THEN /\ parcels' = Append(parcels, [invoice |-> ops[o].orderId])
               /\ ops' = [ops EXCEPT ![o].pc = "save", ![o].calls = @ + 1,
                                     ![o].response = NextConsignment]
          ELSE /\ ops' = [ops EXCEPT ![o] =
                             [End(o, OpFailure("Courier API Failed"))
                                 EXCEPT !.calls = @ + 1]]
               /\ UNCHANGED parcels
    /\ UNCHANGED <<clock, stores, failing, ev, shop, att, shipments, confirmed>>

\* step 6: save the shipment; the insert fails on UNIQUE(order_id) and on
\* UNIQUE(consignment_id)
ShipSave(o) ==
    /\ ops[o].kind = "createShipment" /\ ops[o].pc = "save"
    /\ IF \E s \in shipments : \/ s.order_id = ops[o].orderId
                               \/ s.consignment_id = ops[o].response
       THEN /\ ops' = [ops EXCEPT ![o] =
                End(o, OpFailure("System Error: Shipment created but database update failed. Check logs."))]
            /\ UNCHANGED shipments
       ELSE /\ shipments' = shipments \cup {[order_id |-> ops[o].orderId,
                                             consignment_id |-> ops[o].response]}
            /\ ops' = [ops EXCEPT ![o].pc = "status"]
    /\ UNCHANGED <<clock, stores, failing, ev, shop, att, parcels, confirmed>>

\* steps 7-8: log the success in courier_logs, update the order status
ShipStatus(o) ==
    /\ ops[o].kind = "createShipment" /\ ops[o].pc = "status"
    /\ orders' = WithStatus(ops[o].orderId, "processing")
    /\ ops' = [ops EXCEPT ![o].pc = "history", ![o].updated = TRUE]
    /\ UNCHANGED <<clock, users, blocked_phones, blocked_entries, risk_rules,
                   failing, ev, shop, att, shipments, parcels, confirmed>>

\* add history
ShipHistory(o) ==
    /\ ops[o].kind = "createShipment" /\ ops[o].pc = "history"
    /\ order_status_history' = Append(order_status_history,
          [order_id |-> ops[o].orderId, status |-> "processing",
           notes |-> "Shipment created"])
    /\ ops' = [ops EXCEPT ![o] = [End(o, OpSuccess) EXCEPT !.appended = @ + 1]]
    /\ UNCHANGED <<clock, stores, failing, ev, order_seq, inventory, cart_items,
                   order_items, order_risk_assessments, att, shipments, parcels,
                   confirmed>>

(* createSteadfastParcel *)

\* step 1: get the order, refuse a status other than confirmed and pending
ParcelStart(o, orderId) ==
    /\ MayStart(o)
    /\ LET order == FindOrder(orderId)
           began == [ops[o] EXCEPT !.kind = "createSteadfastParcel",
                                   !.orderId = orderId]
       IN ops' = [ops EXCEPT ![o] =
                     IF order = NoRow
                     THEN [began EXCEPT !.pc = "done",
                                        !.result = OpFailure("Order not found")]
                     ELSE IF order.status # "confirmed" /\ order.status # "pending"
                     THEN [began EXCEPT !.pc = "done", !.seen = order.status,
                              !.result = OpFailure("Cannot create parcel for order with status \""
                                  \o order.status
                                  \o "\". Order must be \"confirmed\" or \"pending\".")]
                     ELSE [began EXCEPT !.pc = "call", !.seen = order.status]]
    /\ UNCHANGED <<clock, stores, failing, ev, shop, att, shipments, parcels, confirmed>>

\* variant: the loop retries once more
ParcelCall_fourth(o) ==
    /\ ops[o].kind = "createSteadfastParcel" /\ ops[o].pc = "call"
    /\ \E outcome \in {"consignment", "empty", "error"} :
          CASE outcome = "consignment" ->
                 /\ parcels' = Append(parcels, [invoice |-> ops[o].orderId])
                 /\ ops' = [ops EXCEPT ![o].pc = "store", ![o].calls = @ + 1,
                                       ![o].response = NextConsignment]
            [] outcome = "empty" ->
                 /\ ops' = [ops EXCEPT ![o] = [End(o, OpSuccess) EXCEPT !.calls = @ + 1]]
                 /\ UNCHANGED parcels
            [] outcome = "error" ->
                 /\ ops' = [ops EXCEPT ![o].attempts = @ + 1, ![o].calls = @ + 1,
                               ![o].pc = IF ops[o].attempts + 1 >= MAX_RETRIES + 1
                                         THEN "fail_log" ELSE "call"]
                 /\ UNCHANGED parcels
    /\ UNCHANGED <<clock, stores, failing, ev, shop, att, shipments, confirmed>>

\* step 3: one pass of the retry loop. The courier answers with a
\* consignment, answers without one (the operation then returns success
\* and stores nothing), or the call throws
ParcelCall(o) ==
    /\ ops[o].kind = "createSteadfastParcel" /\ ops[o].pc = "call"
    /\ \E outcome \in {"consignment", "empty", "error"} :
          CASE outcome = "consignment" ->
                 /\ parcels' = Append(parcels, [invoice |-> ops[o].orderId])
                 /\ ops' = [ops EXCEPT ![o].pc = "store", ![o].calls = @ + 1,
                                       ![o].response = NextConsignment]
            [] outcome = "empty" ->
                 /\ ops' = [ops EXCEPT ![o] = [End(o, OpSuccess) EXCEPT !.calls = @ + 1]]
                 /\ UNCHANGED parcels
            [] outcome = "error" ->
                 /\ ops' = [ops EXCEPT ![o].attempts = @ + 1, ![o].calls = @ + 1,
                               ![o].pc = IF ops[o].attempts + 1 >= MAX_RETRIES
                                         THEN "fail_log" ELSE "call"]
                 /\ UNCHANGED parcels
    /\ UNCHANGED <<clock, stores, failing, ev, shop, att, shipments, confirmed>>

\* the last attempt failed: log the failure with the status read in step 1
ParcelFailLog(o) ==
    /\ ops[o].kind = "createSteadfastParcel" /\ ops[o].pc = "fail_log"
    /\ order_status_history' = Append(order_status_history,
          [order_id |-> ops[o].orderId, status |-> ops[o].seen,
           notes |-> "Steadfast parcel creation failed after 3 attempts"])
    /\ ops' = [ops EXCEPT ![o] =
                  [End(o, OpFailure("Steadfast API failed after 3 retries"))
                      EXCEPT !.appended = @ + 1]]
    /\ UNCHANGED <<clock, stores, failing, ev, order_seq, inventory, cart_items,
                   order_items, order_risk_assessments, att, shipments, parcels,
                   confirmed>>

\* step 4: store the consignment id and update the order to shipped
ParcelStore(o) ==
    /\ ops[o].kind = "createSteadfastParcel" /\ ops[o].pc = "store"
    /\ orders' = WithStatusAndNotes(ops[o].orderId, "shipped",
                                    ConsignmentNote(ops[o].response))
    /\ ops' = [ops EXCEPT ![o].pc = "history", ![o].updated = TRUE]
    /\ UNCHANGED <<clock, users, blocked_phones, blocked_entries, risk_rules,
                   failing, ev, shop, att, shipments, parcels, confirmed>>

\* record in history
ParcelHistory(o) ==
    /\ ops[o].kind = "createSteadfastParcel" /\ ops[o].pc = "history"
    /\ order_status_history' = Append(order_status_history,
          [order_id |-> ops[o].orderId, status |-> "shipped",
           notes |-> "Parcel created"])
    /\ ops' = [ops EXCEPT ![o] = [End(o, OpSuccess) EXCEPT !.appended = @ + 1]]
    /\ UNCHANGED <<clock, stores, failing, ev, order_seq, inventory, cart_items,
                   order_items, order_risk_assessments, att, shipments, parcels,
                   confirmed>>

(* updateOrderStatus, confirmOrder, cancelOrder *)

\* confirmOrder and cancelOrder: the status and the notes they pass
AdminChanges == {[status |-> "confirmed", notes |-> "Order confirmed by admin"],
                 [status |-> "cancelled", notes |-> "Cancelled by admin"]}

\* update the order status and the admin notes
AdminUpdate(o, orderId, change) ==
    /\ MayStart(o)
    /\ LET began == [ops[o] EXCEPT !.kind = "updateOrderStatus", !.orderId = orderId,
                        !.newStatus = change.status, !.notes = change.notes]
       IN IF "orders.update" \in failing
          THEN /\ ops' = [ops EXCEPT ![o] =
                             [began EXCEPT !.pc = "done",
                                           !.result = OpFailure("update failed")]]
               /\ UNCHANGED <<orders, confirmed>>
          ELSE /\ orders' = WithStatusAndNotes(orderId, change.status, change.notes)
               /\ confirmed' = IF change.status = "confirmed" /\ FindOrder(orderId) # NoRow
                               THEN confirmed \cup {orderId} ELSE confirmed
               /\ ops' = [ops EXCEPT ![o] =
                             [began EXCEPT !.pc = "history", !.updated = TRUE]]
    /\ UNCHANGED <<clock, users, blocked_phones, blocked_entries, risk_rules,
                   failing, ev, shop, att, shipments, parcels>>

\* record in history; the insert fails on the foreign key when no order
\* has the id, and the error is not read
AdminHistory(o) ==
    /\ ops[o].kind = "updateOrderStatus" /\ ops[o].pc = "history"
    /\ IF FindOrder(ops[o].orderId) # NoRow
       THEN /\ order_status_history' = Append(order_status_history,
                  [order_id |-> ops[o].orderId, status |-> ops[o].newStatus,
                   notes |-> ops[o].notes])
            /\ ops' = [ops EXCEPT ![o] = [End(o, OpSuccess) EXCEPT !.appended = @ + 1]]
       ELSE /\ ops' = [ops EXCEPT ![o] = End(o, OpSuccess)]
            /\ UNCHANGED order_status_history
    /\ UNCHANGED <<clock, stores, failing, ev, order_seq, inventory, cart_items,
                   order_items, order_risk_assessments, att, shipments, parcels,
                   confirmed>>

(* The webhook route: POST /api/webhooks/steadfast *)

\* variant: the mapped status is not compared with the order's status
HookStart_noCompare(o, consignment_id, courierStatus) ==
    /\ MayStart(o)
    /\ LET began == [ops[o] EXCEPT !.kind = "POST", !.consignment = consignment_id,
                                   !.courierStatus = courierStatus]
           hits == {i \in 1..Len(orders) :
                       MentionsConsignment(orders[i].admin_notes, consignment_id)}
           order == SingleOrder(hits)
           newStatus == mapSteadfastStatus(courierStatus)
       IN ops' = [ops EXCEPT ![o] =
             IF consignment_id = 0 \/ courierStatus = NULL
             THEN [began EXCEPT !.pc = "done", !.result = OpFailure("Invalid payload")]
             ELSE IF order = NoRow
             THEN [began EXCEPT !.pc = "done", !.result = OpSuccess]
             ELSE IF newStatus # NULL
             THEN [began EXCEPT !.pc = "update", !.orderId = order.id,
                                !.seen = order.status, !.newStatus = newStatus]
             ELSE [began EXCEPT !.pc = "done", !.orderId = order.id,
                                !.seen = order.status, !.newStatus = newStatus,
                                !.result = OpSuccess]]
    /\ UNCHANGED <<clock, stores, failing, ev, shop, att, shipments, parcels, confirmed>>

\* steps 1-3: validate the payload, find the order, map the status
HookStart(o, consignment_id, courierStatus) ==
    /\ MayStart(o)
    /\ LET began == [ops[o] EXCEPT !.kind = "POST", !.consignment = consignment_id,
                                   !.courierStatus = courierStatus]
           hits == {i \in 1..Len(orders) :
                       MentionsConsignment(orders[i].admin_notes, consignment_id)}
           order == SingleOrder(hits)
           newStatus == mapSteadfastStatus(courierStatus)
       IN ops' = [ops EXCEPT ![o] =
             IF consignment_id = 0 \/ courierStatus = NULL
             THEN [began EXCEPT !.pc = "done", !.result = OpFailure("Invalid payload")]
             ELSE IF order = NoRow
             THEN [began EXCEPT !.pc = "done", !.result = OpSuccess]
             ELSE IF newStatus # NULL /\ newStatus # order.status
             THEN [began EXCEPT !.pc = "update", !.orderId = order.id,
                                !.seen = order.status, !.newStatus = newStatus]
             ELSE [began EXCEPT !.pc = "done", !.orderId = order.id,
                                !.seen = order.status, !.newStatus = newStatus,
                                !.result = OpSuccess]]
    /\ UNCHANGED <<clock, stores, failing, ev, shop, att, shipments, parcels, confirmed>>

HookUpdate(o) ==
    /\ ops[o].kind = "POST" /\ ops[o].pc = "update"
    /\ orders' = WithStatus(ops[o].orderId, ops[o].newStatus)
    /\ ops' = [ops EXCEPT ![o].pc = "history", ![o].updated = TRUE]
    /\ UNCHANGED <<clock, users, blocked_phones, blocked_entries, risk_rules,
                   failing, ev, shop, att, shipments, parcels, confirmed>>

HookHistory(o) ==
    /\ ops[o].kind = "POST" /\ ops[o].pc = "history"
    /\ order_status_history' = Append(order_status_history,
          [order_id |-> ops[o].orderId, status |-> ops[o].newStatus,
           notes |-> "Steadfast webhook"])
    /\ ops' = [ops EXCEPT ![o] = [End(o, OpSuccess) EXCEPT !.appended = @ + 1]]
    /\ UNCHANGED <<clock, stores, failing, ev, order_seq, inventory, cart_items,
                   order_items, order_risk_assessments, att, shipments, parcels,
                   confirmed>>

(* processSteadfastWebhook *)

\* find the order, map the status with the order's own status as default
ProcessStart(o, consignment_id, courierStatus) ==
    /\ MayStart(o)
    /\ LET began == [ops[o] EXCEPT !.kind = "processSteadfastWebhook",
                                   !.consignment = consignment_id,
                                   !.courierStatus = courierStatus]
           hits == {i \in 1..Len(orders) :
                       MentionsId(orders[i].admin_notes, consignment_id)}
           order == SingleOrder(hits)
           mapped == STEADFAST_STATUS_MAP(courierStatus)
           newStatus == IF mapped # NULL THEN mapped ELSE order.status
       IN ops' = [ops EXCEPT ![o] =
             IF order = NoRow
             THEN [began EXCEPT !.pc = "done", !.result = OpFailure(NULL)]
             ELSE IF newStatus # order.status
             THEN [began EXCEPT !.pc = "update", !.orderId = order.id,
                                !.seen = order.status, !.newStatus = newStatus]
             ELSE [began EXCEPT !.pc = "done", !.orderId = order.id,
                                !.seen = order.status, !.newStatus = newStatus,
                                !.result = OpSuccess]]
    /\ UNCHANGED <<clock, stores, failing, ev, shop, att, shipments, parcels, confirmed>>

ProcessUpdate(o) ==
    /\ ops[o].kind = "processSteadfastWebhook" /\ ops[o].pc = "update"
    /\ orders' = WithStatus(ops[o].orderId, ops[o].newStatus)
    /\ ops' = [ops EXCEPT ![o].pc = "history", ![o].updated = TRUE]
    /\ UNCHANGED <<clock, users, blocked_phones, blocked_entries, risk_rules,
                   failing, ev, shop, att, shipments, parcels, confirmed>>

ProcessHistory(o) ==
    /\ ops[o].kind = "processSteadfastWebhook" /\ ops[o].pc = "history"
    /\ order_status_history' = Append(order_status_history,
          [order_id |-> ops[o].orderId, status |-> ops[o].newStatus,
           notes |-> "Webhook: Steadfast status"])
    /\ ops' = [ops EXCEPT ![o] = [End(o, OpSuccess) EXCEPT !.appended = @ + 1]]
    /\ UNCHANGED <<clock, stores, failing, ev, order_seq, inventory, cart_items,
                   order_items, order_risk_assessments, att, shipments, parcels,
                   confirmed>>

(* checkParcelStatus *)

\* step 1: get the order and the consignment id in its admin notes
SyncStart(o, orderId) ==
    /\ MayStart(o)
    /\ LET order == FindOrder(orderId)
           began == [ops[o] EXCEPT !.kind = "checkParcelStatus", !.orderId = orderId]
       IN ops' = [ops EXCEPT ![o] =
             IF order = NoRow
             THEN [began EXCEPT !.pc = "done", !.result = OpFailure("Order not found")]
             ELSE IF order.admin_notes = NULL \/ ConsignmentIn(order.admin_notes) = 0
             THEN [began EXCEPT !.pc = "done", !.seen = order.status,
                      !.result = OpFailure("No Steadfast consignment ID found for this order")]
             ELSE [began EXCEPT !.pc = "check", !.seen = order.status,
                                !.consignment = ConsignmentIn(order.admin_notes)]]
    /\ UNCHANGED <<clock, stores, failing, ev, shop, att, shipments, parcels, confirmed>>

\* steps 2-3: ask the courier for the delivery status and map it
SyncCheck(o) ==
    /\ ops[o].kind = "checkParcelStatus" /\ ops[o].pc = "check"
    /\ \E deliveryStatus \in CourierStatuses \cup {NULL} :
          LET mapped == STEADFAST_STATUS_MAP(deliveryStatus)
              newStatus == IF mapped # NULL THEN mapped ELSE ops[o].seen
          IN ops' = [ops EXCEPT ![o] =
                IF deliveryStatus = NULL
                THEN End(o, OpFailure("Status check failed"))
                ELSE IF newStatus # ops[o].seen
                THEN [ops[o] EXCEPT !.pc = "update", !.courierStatus = deliveryStatus,
                                    !.newStatus = newStatus]
                ELSE [End(o, OpSuccess) EXCEPT !.courierStatus = deliveryStatus,
                                               !.newStatus = newStatus]]
    /\ UNCHANGED <<clock, stores, failing, ev, shop, att, shipments, parcels, confirmed>>

SyncUpdate(o) ==
    /\ ops[o].kind = "checkParcelStatus" /\ ops[o].pc = "update"
    /\ orders' = WithStatus(ops[o].orderId, ops[o].newStatus)
    /\ ops' = [ops EXCEPT ![o].pc = "history", ![o].updated = TRUE]
    /\ UNCHANGED <<clock, users, blocked_phones, blocked_entries, risk_rules,
                   failing, ev, shop, att, shipments, parcels, confirmed>>

SyncHistory(o) ==
    /\ ops[o].kind = "checkParcelStatus" /\ ops[o].pc = "history"
    /\ order_status_history' = Append(order_status_history,
          [order_id |-> ops[o].orderId, status |-> ops[o].newStatus,
           notes |-> "Steadfast status sync"])
    /\ ops' = [ops EXCEPT ![o] = [End(o, OpSuccess) EXCEPT !.appended = @ + 1]]
    /\ UNCHANGED <<clock, stores, failing, ev, order_seq, inventory, cart_items,
                   order_items, order_risk_assessments, att, shipments, parcels,
                   confirmed>>

----------------------------------------------------------------------------
(* The stores an evaluation can find *)

\* the kinds of order rows already in the table: live and recent, live and
\* exactly 24 hours old at the start, cancelled, delivered, of another phone
SeedKinds == <<
    [phone_number |-> "p1", created_at |-> StartClock - 6, status |-> "pending"],
    [phone_number |-> "p1", created_at |-> StartClock - 6, status |-> "shipped"],
    [phone_number |-> "p1", created_at |-> StartClock - 24, status |-> "pending"],
    [phone_number |-> "p1", created_at |-> StartClock - 6, status |-> "cancelled"],
    [phone_number |-> "p1", created_at |-> StartClock - 6, status |-> "delivered"],
    [phone_number |-> "p2", created_at |-> StartClock - 6, status |-> "pending"] >>

SeedOrder(i, k) ==
    [id |-> i, user_id |-> "u1", phone_number |-> k.phone_number,
     total_amount |-> 1000, delivery_fee |-> 0, status |-> k.status,
     admin_notes |-> NULL, created_at |-> k.created_at]

\* the table is a set of rows: one arrangement per multiset of kinds
SeedTables ==
    UNION {{[i \in 1..n |-> SeedOrder(i, SeedKinds[ks[i]])] :
                ks \in {f \in [1..n -> 1..Len(SeedKinds)] :
                           \A i \in 1..n : \A j \in 1..n : i <= j => f[i] <= f[j]}} :
           n \in 0..MaxSeedOrders}

\* an account exactly 24 hours old at the start, or 12 hours old
UserRows == [created_at : {StartClock - 24, StartClock - 12}, total_orders : {0}]

UserArgs == UserIds \cup {NULL}

HardBlock(type, value, reason) ==
    [type |-> type, value |-> value, severity |-> "hard_block", reason |-> reason,
     expires_at |-> NoExpiry]

FlagOnly(type, value, reason) ==
    [type |-> type, value |-> value, severity |-> "flag_only", reason |-> reason,
     expires_at |-> NoExpiry]

\* the entry with an expiry that passed an hour before the start
Expired(e) == [e EXCEPT !.expires_at = StartClock - 1]

\* the unified blocklist of the shop: empty, a hard block of the phone p2,
\* or that hard block after its expiry
BlockedEntrySeeds ==
    {{}, {HardBlock("phone", "p2", "fraud")},
     {Expired(HardBlock("phone", "p2", "fraud"))}}

\* the unified blocklist an evaluation can find: empty, a hard block of the
\* phone p2, a hard block of the customer u1, a flag-only entry of the
\* phone p1, or an expired hard block of the phone p1
EvalEntrySeeds ==
    {{}, {HardBlock("phone", "p2", "fraud")},
     {HardBlock("user_id", "u1", "chargebacks")},
     {FlagOnly("phone", "p1", "suspicious")},
     {Expired(HardBlock("phone", "p1", "fraud"))}}

InitEval ==
    /\ clock = StartClock
    /\ users \in {f \in [UserIds -> UserRows \cup {NoRow}] : f["u2"] = NoRow}
    /\ orders \in SeedTables
    /\ blocked_phones \in {f \in [Phones -> [reason : Reasons] \cup {NoRow}] :
                              f["p2"] = NoRow}
    /\ blocked_entries \in EvalEntrySeeds
    /\ risk_rules \in {SeededRules,
                       [SeededRules EXCEPT !["new_user_penalty"] = [value |-> 20]]}
    \* the unified blocklist and the rules are varied one at a time, against
    \* empty blocked_phones
    /\ (blocked_entries # {} \/ risk_rules # SeededRules) =>
          \A p \in Phones : blocked_phones[p] = NoRow
    /\ blocked_entries # {} => risk_rules = SeededRules
    /\ failing = {}
    /\ ev = NoEval
    /\ order_seq = Len(orders)
    /\ inventory = [p \in Products |-> InitStock]
    /\ cart_items = [c \in Callers |-> [p \in Products |-> 0]]
    /\ order_items = {}
    /\ order_risk_assessments = {}
    /\ order_status_history = <<>>
    /\ att = [a \in Attempts |-> Idle]
    /\ NoFulfilment

NextEval ==
    \/ \E u \in UserArgs, p \in Phones, a \in Amounts : EvaluateOrder(u, p, a)
    \/ Tick

SpecEval == InitEval /\ [][NextEval]_vars

----------------------------------------------------------------------------
(* The evaluator over stores whose reads fail *)

\* the reads of evaluateOrder; a failed read returns { data: null } or
\* { count: null } next to an error the code does not look at
ReadOps == {"users", "orders", "blocked_phones"}

\* up to MaxSeedOrders live recent orders of the phone p1
FaultSeedTables ==
    {[i \in 1..n |-> SeedOrder(i, SeedKinds[1])] : n \in 0..MaxSeedOrders}

\* the reads in `failing` fail for the whole behaviour
InitEvalFault ==
    /\ clock = StartClock
    /\ users \in {f \in [UserIds -> UserRows \cup {NoRow}] : f["u2"] = NoRow}
    /\ orders \in FaultSeedTables
    /\ blocked_phones \in {f \in [Phones -> [reason : {"fraud"}] \cup {NoRow}] :
                              f["p2"] = NoRow}
    /\ blocked_entries = {}
    /\ risk_rules = SeededRules
    /\ failing \in SUBSET ReadOps
    /\ ev = NoEval
    /\ order_seq = Len(orders)
    /\ inventory = [p \in Products |-> InitStock]
    /\ cart_items = [c \in Callers |-> [p \in Products |-> 0]]
    /\ order_items = {}
    /\ order_risk_assessments = {}
    /\ order_status_history = <<>>
    /\ att = [a \in Attempts |-> Idle]
    /\ NoFulfilment

NextEvalFault ==
    \/ \E u \in UserArgs, p \in Phones, a \in Amounts : EvaluateOrder(u, p, a)
    \/ Tick

SpecEvalFault == InitEvalFault /\ [][NextEvalFault]_vars

----------------------------------------------------------------------------
(* The checkout flows over a seeded shop *)

\* the orders the customer u1 already placed with the phone p1: earlier
\* today, or yesterday within the last 24 hours
ShopSeedKinds == <<
    [phone_number |-> "p1", created_at |-> StartClock - 6, status |-> "pending"],
    [phone_number |-> "p1", created_at |-> StartClock - 18, status |-> "pending"] >>

ShopSeedTables ==
    UNION {{[i \in 1..n |-> SeedOrder(i, ShopSeedKinds[ks[i]])] :
                ks \in {f \in [1..n -> 1..Len(ShopSeedKinds)] :
                           \A i \in 1..n : \A j \in 1..n : i <= j => f[i] <= f[j]}} :
           n \in 0..MaxSeedOrders}

\* what the client sends as cartItems
CartArgs == {<<"prodA", 1>>, <<"prodB", 1>>, <<"prodA", 3>>}
CartItemsArg(c) == ItemsOf([p \in Products |-> IF p = c[1] THEN c[2] ELSE 0])

Init ==
    /\ clock = StartClock
    /\ users \in {[u \in UserIds |->
                     IF u = "u1" THEN [created_at |-> c, total_orders |-> 0] ELSE NoRow] :
                  c \in {StartClock - 36, StartClock - 12}}
    /\ orders \in ShopSeedTables
    /\ blocked_phones \in {[p \in Phones |-> NoRow],
                           [p \in Phones |-> IF p = "p2" THEN [reason |-> "fraud"]
                                             ELSE NoRow]}
    /\ blocked_entries \in BlockedEntrySeeds
    /\ risk_rules \in {SeededRules,
                       [SeededRules EXCEPT !["max_daily_orders"] = NoRow],
                       [SeededRules EXCEPT !["max_daily_orders"] = [value |-> 2]]}
    \* the unified blocklist is varied against empty blocked_phones and the
    \* seeded rules
    /\ blocked_entries # {} =>
          /\ \A p \in Phones : blocked_phones[p] = NoRow
          /\ risk_rules = SeededRules
    /\ failing = {}
    /\ ev = NoEval
    /\ order_seq = Len(orders)
    \* prodB has one unit less in stock than prodA
    /\ inventory = [p \in Products |-> IF p = "prodB" THEN InitStock - 1 ELSE InitStock]
    /\ cart_items = [c \in Callers |->
                        [p \in Products |-> IF c = "u1" /\ p = "prodB" THEN 1
                                            ELSE IF c = Guest /\ p = "prodA" THEN 1
                                            ELSE 0]]
    /\ order_items = {}
    /\ order_risk_assessments = {}
    /\ order_status_history = <<>>
    /\ att = [a \in Attempts |-> Idle]
    /\ NoFulfilment

Next ==
    \/ \E a \in Attempts, c \in Callers, p \in Phones : StartCod(a, c, p)
    \/ \E a \in Attempts : CodRisk(a)
    \/ \E a \in Attempts : CodInsertOrder(a)
    \/ \E a \in Attempts : CodInsertItems(a)
    \/ \E a \in Attempts : CodDecrement(a)
    \/ \E a \in Attempts : CodHistory(a)
    \/ \E a \in Attempts : CodClearCart(a)
    \/ \E a \in Attempts, c \in Callers, p \in PhoneArgs, ci \in CartArgs :
          StartSession(a, c, p, CartItemsArg(ci))
    \/ \E a \in Attempts : SessBlocklist(a)
    \/ \E a \in Attempts : SessDailyLimit(a)
    \/ \E a \in Attempts : SessCart(a)
    \/ \E a \in Attempts : SessRisk(a)
    \/ \E a \in Attempts : SessInsertOrder(a)
    \/ \E a \in Attempts : SessAssessment(a)
    \/ \E a \in Attempts : SessInsertItems(a)
    \/ \E a \in Attempts : SessUserStats(a)
    \/ \E a \in Attempts : SessHistory(a)
    \/ \E a \in Attempts : SessClearCart(a)

Spec == Init /\ [][Next]_vars

----------------------------------------------------------------------------
(* The checkout flows over a store whose writes fail *)

\* the writes whose error the flows look at or log
WriteOps == {"orders.insert", "order_items.insert", "decrement_inventory"}

\* an established customer with no orders and two products in the cart;
\* the writes in `failing` fail for the whole behaviour
InitFault ==
    /\ clock = StartClock
    /\ users = [u \in UserIds |->
                   IF u = "u1" THEN [created_at |-> StartClock - 36, total_orders |-> 0]
                   ELSE NoRow]
    /\ orders = <<>>
    /\ blocked_phones = [p \in Phones |-> NoRow]
    /\ blocked_entries = {}
    /\ risk_rules = SeededRules
    /\ failing \in SUBSET WriteOps
    /\ ev = NoEval
    /\ order_seq = 0
    /\ inventory = [p \in Products |-> InitStock]
    /\ cart_items = [c \in Callers |->
                        [p \in Products |-> IF c = "u1" \/ p = "prodA" THEN 1 ELSE 0]]
    /\ order_items = {}
    /\ order_risk_assessments = {}
    /\ order_status_history = <<>>
    /\ att = [a \in Attempts |-> Idle]
    /\ NoFulfilment

SpecFault == InitFault /\ [][Next]_vars

----------------------------------------------------------------------------
(* Fulfilment of one placed order *)

FulfilSeeds == {"approved", "flagged", "confirmed", "shipped"}

\* the order createCodOrder left behind: approved, flagged, flagged and
\* since confirmed by an admin, or approved and since shipped by
\* createSteadfastParcel
FulfilOrder(seed) ==
    OrderRow(1, "u1", Price["prodA"] + COD_DELIVERY_FEE, COD_DELIVERY_FEE,
             CASE seed = "approved" -> "pending"
               [] seed = "flagged" -> "pending_confirmation"
               [] seed = "confirmed" -> "confirmed"
               [] seed = "shipped" -> "shipped",
             "p1",
             CASE seed = "approved" -> NULL
               [] seed = "flagged" ->
                    "Flagged (score: 40): Very High Velocity (3 orders/24h)"
               [] seed = "confirmed" -> "Order confirmed by admin"
               [] seed = "shipped" -> ConsignmentNote(FirstConsignment))

FulfilHistory(seed) ==
    LET flagged == seed \in {"flagged", "confirmed"} IN
    <<[order_id |-> 1,
       status |-> IF flagged THEN "pending_confirmation" ELSE "pending",
       notes |-> IF flagged THEN "Auto-flagged by risk engine"
                 ELSE "Order placed via COD"]>>
    \o CASE seed = "shipped" ->
              <<[order_id |-> 1, status |-> "shipped", notes |-> "Parcel created"]>>
          [] seed = "confirmed" ->
              <<[order_id |-> 1, status |-> "confirmed",
                 notes |-> "Order confirmed by admin"]>>
          [] OTHER -> <<>>

InitFulfil ==
    /\ clock = StartClock
    /\ users = [u \in UserIds |->
                   IF u = "u1" THEN [created_at |-> StartClock - 36, total_orders |-> 0]
                   ELSE NoRow]
    /\ blocked_phones = [p \in Phones |-> NoRow]
    /\ blocked_entries = {}
    /\ risk_rules = SeededRules
    /\ failing = {}
    /\ ev = NoEval
    /\ order_seq = 1
    /\ inventory = [p \in Products |-> InitStock]
    /\ cart_items = [c \in Callers |-> [p \in Products |-> 0]]
    /\ order_items = {[order_id |-> 1, product_id |-> "prodA", quantity |-> 1,
                       price_at_purchase |-> Price["prodA"]]}
    /\ order_risk_assessments = {}
    /\ att = [a \in Attempts |-> Idle]
    /\ \E seed \in FulfilSeeds :
          /\ orders = <<FulfilOrder(seed)>>
          /\ order_status_history = FulfilHistory(seed)
          /\ parcels = IF seed = "shipped" THEN <<[invoice |-> 1]>> ELSE <<>>
          /\ confirmed = IF seed = "confirmed" THEN {1} ELSE {}
    /\ shipments = {}
    /\ ops = [o \in OpSlots |-> IdleOp]

\* the consignment ids and the statuses a webhook delivery carries; 0 and
\* NULL stand for a missing field
ConsignmentArgs == {FirstConsignment, FirstConsignment + 1}
HookArgs == (ConsignmentArgs \X CourierStatuses)
                \cup {<<0, "delivered">>, <<FirstConsignment, NULL>>}

NextFulfil ==
    \/ \E o \in OpSlots, id \in OrderArgs : ShipStart(o, id)
    \/ \E o \in OpSlots : ShipIdempotency(o)
    \/ \E o \in OpSlots : ShipCourier(o)
    \/ \E o \in OpSlots : ShipSave(o)
    \/ \E o \in OpSlots : ShipStatus(o)
    \/ \E o \in OpSlots : ShipHistory(o)
    \/ \E o \in OpSlots, id \in OrderArgs : ParcelStart(o, id)
    \/ \E o \in OpSlots : ParcelCall(o)
    \/ \E o \in OpSlots : ParcelFailLog(o)
    \/ \E o \in OpSlots : ParcelStore(o)
    \/ \E o \in OpSlots : ParcelHistory(o)
    \/ \E o \in OpSlots, id \in OrderArgs, change \in AdminChanges :
          AdminUpdate(o, id, change)
    \/ \E o \in OpSlots : AdminHistory(o)
    \/ \E o \in OpSlots, h \in HookArgs : HookStart(o, h[1], h[2])
    \/ \E o \in OpSlots : HookUpdate(o)
    \/ \E o \in OpSlots : HookHistory(o)
    \/ \E o \in OpSlots, c \in ConsignmentArgs, s \in CourierStatuses :
          ProcessStart(o, c, s)
    \/ \E o \in OpSlots : ProcessUpdate(o)
    \/ \E o \in OpSlots : ProcessHistory(o)
    \/ \E o \in OpSlots, id \in OrderArgs : SyncStart(o, id)
    \/ \E o \in OpSlots : SyncCheck(o)
    \/ \E o \in OpSlots : SyncUpdate(o)
    \/ \E o \in OpSlots : SyncHistory(o)

SpecFulfil == InitFulfil /\ [][NextFulfil]_vars

\* a started createSteadfastParcel call is not suspended forever: each
\* awaited store request and courier call settles and the backoff timer fires
ParcelStep(o) ==
    ParcelCall(o) \/ ParcelFailLog(o) \/ ParcelStore(o) \/ ParcelHistory(o)

SpecFulfilLive ==
    InitFulfil /\ [][NextFulfil]_vars /\ \A o \in OpSlots : WF_vars(ParcelStep(o))

----------------------------------------------------------------------------
(* Properties of the checkout flows, under Spec *)

Began(a) == att[a].kind # "none"
Evaluator(a) == att[a].risk # NoRisk
Persisted(a) == att[a].orderId # 0 /\ \E i \in 1..Len(orders) : orders[i].id = att[a].orderId
OrderOf(a) == orders[CHOOSE i \in 1..Len(orders) : orders[i].id = att[a].orderId]
Ran(a, step) == \E i \in 1..Len(att[a].steps) : att[a].steps[i] = step

\* C4: an attempt whose evaluation returned a block decision is rejected
\* outright. No attempt writes a table before its evaluation has returned,
\* and every step of an attempt with a block decision, the evaluation
\* included, leaves every table as it was (no order, item, assessment or
\* history row, no inventory decrement, no cart clearing) and ends the
\* attempt with a failure and no order id.
C4_BlockRejectsOutright ==
    [][\A a \in Attempts : att'[a] # att[a] =>
          /\ att[a].risk = NoRisk => UNCHANGED <<fulfil, stores, shop>>
          /\ (att'[a].risk # NoRisk /\ att'[a].risk.blocked) =>
                /\ UNCHANGED <<fulfil, stores, shop>>
                /\ att'[a].pc = "done"
                /\ ~att'[a].result.success
                /\ att'[a].orderId = 0]_vars

\* both flows have rejected a blocked checkout
C4_Witness ==
    \E a \in Attempts, b \in Attempts :
        /\ att[a].kind = "cod" /\ att[b].kind = "session"
        /\ Evaluator(a) /\ att[a].risk.blocked /\ att[a].pc = "done"
        /\ Evaluator(b) /\ att[b].risk.blocked /\ att[b].pc = "done"
        /\ order_seq = Len(orders)

NeedsConfirmationStatuses == {"pending_confirmation", "flagged_for_review"}

\* C5: every order a checkout persisted has the status its decision calls
\* for: flag gives a needs-confirmation status and a note naming the score
\* and the factors, approve gives "pending" and no note, and no approved
\* order has the status a flagged order was given.
C5_StatusFromDecision ==
    /\ \A a \in Attempts : Persisted(a) =>
          /\ att[a].risk.action = "flag" =>
                /\ OrderOf(a).status \in NeedsConfirmationStatuses
                /\ OrderOf(a).admin_notes = CodFlagNote(att[a].risk)
          /\ att[a].risk.action = "approve" =>
                /\ OrderOf(a).status = "pending"
                /\ OrderOf(a).admin_notes = NULL
    /\ \A a \in Attempts, b \in Attempts :
          (Persisted(a) /\ Persisted(b) /\ att[a].risk.action = "approve"
             /\ att[b].risk.action = "flag") =>
                att[a].initialStatus # att[b].initialStatus

\* C6: an attempt that reached the evaluator ran the hard-blocklist check,
\* the daily-limit check, the total and the evaluation, in this order and
\* each once.
C6_StepOrder ==
    \A a \in Attempts : Ran(a, "evaluate") =>
        att[a].steps = <<"blocklist_check", "daily_limit_check", "compute_total",
                         "evaluate">>

\* max_daily_orders, 3 when the rule is absent
max_daily_orders ==
    IF risk_rules["max_daily_orders"] # NoRow
    THEN risk_rules["max_daily_orders"].value ELSE 3

\* C7: an attempt of a customer who had max_daily_orders or more orders
\* since local midnight when it began never reaches the evaluator, persists
\* nothing and ends with an error.
C7_DailyLimit ==
    \A a \in Attempts :
        (Began(a) /\ att[a].userId # NULL /\ att[a].dailyAtStart >= max_daily_orders) =>
            /\ ~Evaluator(a)
            /\ att[a].orderId = 0
            /\ att[a].pc = "done" => ~att[a].result.success

\* an entry is active when it has no expiry or the expiry lies ahead
Active(e, now) == e.expires_at = NoExpiry \/ e.expires_at > now

\* the entry is a hard block of the phone or of the customer
HardBlocks(e, phone, userId) ==
    /\ e.severity = "hard_block"
    /\ \/ e.type = "phone" /\ e.value = phone
       \/ e.type = "user_id" /\ e.value = userId

\* the attempt ended in the fast-fail check of the hard blocklist
FastFailRejected(a) ==
    /\ att[a].kind = "session" /\ att[a].pc = "done"
    /\ att[a].steps = <<"blocklist_check">>

\* C12: an entry whose expires_at lies in the past is not active: it
\* contributes no points to the evaluation of an attempt, and the fast-fail
\* check rejects an attempt only when an active hard block matches its
\* phone or customer.
C12_ExpiredEntryInactive ==
    \A a \in Attempts :
        /\ FastFailRejected(a) =>
              \E e \in blocked_entries :
                  HardBlocks(e, att[a].phone, att[a].userId) /\ Active(e, clock)
        /\ (Evaluator(a) /\ blocked_phones[att[a].phone] = NoRow
                /\ \A e \in blocked_entries : ~Active(e, clock)) =>
              \A i \in 1..Len(att[a].risk.factors) :
                  att[a].risk.factors[i].points # BlockedPhonePoints

AssessmentsOf(id) == {r \in order_risk_assessments : r.order_id = id}

\* C19: once an attempt that persisted an order has ended, the order has an
\* assessment row with the score and the factors list of the evaluation
\* exactly when the score was greater than 0; no order has two.
C19_AssessmentIffPositive ==
    /\ \A a \in Attempts : (att[a].pc = "done" /\ Persisted(a)) =>
          (att[a].risk.score > 0) =
              (\E r \in AssessmentsOf(att[a].orderId) :
                  /\ r.risk_score = att[a].risk.score
                  /\ r.factors = att[a].risk.factors)
    /\ \A id \in 1..order_seq : Cardinality(AssessmentsOf(id)) <= 1

----------------------------------------------------------------------------
(* Properties of the checkout flows when writes fail, under SpecFault *)

\* the attempt created an order row and its insertion of the items failed
ItemsInsertFailed(a) ==
    /\ att[a].pc = "done" /\ att[a].orderId # 0
    /\ att[a].result.error \in {"Failed to save order items",
                                 "Order items creation failed: Unknown"}

\* rows of the order in any table
RowsOf(id) ==
    \/ \E i \in 1..Len(orders) : orders[i].id = id
    \/ \E r \in order_items : r.order_id = id
    \/ \E r \in order_risk_assessments : r.order_id = id
    \/ \E i \in 1..Len(order_status_history) : order_status_history[i].order_id = id

\* C17: after an attempt whose order row was created and whose insertion of
\* the order items failed, no row of that order is left in any table and
\* the attempt has reported failure.
C17_ItemsFailureRollsBack ==
    \A a \in Attempts : ItemsInsertFailed(a) =>
        /\ ~att[a].result.success
        /\ ~RowsOf(att[a].orderId)

\* C18: in createCodOrder a failed inventory decrement neither aborts nor
\* rolls back. The decrement step leaves the order and its items in place,
\* takes the quantity of every item whose call succeeded from the stock and
\* leaves the stock of the others; the attempt goes on to append the
\* status-history record, clear the cart and report success.
C18_DecrementFailureTolerated ==
    /\ [][\A a \in Attempts :
             (att[a].kind = "cod" /\ att[a].pc = "decrement" /\ att'[a] # att[a]) =>
                 /\ att'[a].pc = "history"
                 /\ UNCHANGED <<fulfil, orders, order_items>>
                 /\ \A i \in 1..Len(att[a].items) :
                       inventory'[att[a].items[i].product_id] =
                           inventory[att[a].items[i].product_id]
                           - (IF i \in att'[a].decFailed THEN 0
                              ELSE att[a].items[i].quantity)]_vars
    /\ [](\A a \in Attempts : (att[a].kind = "cod" /\ att[a].decFailed # {}) =>
             /\ att[a].pc \in {"history", "clear_cart", "done"}
             /\ Persisted(a)
             /\ ItemRows(att[a].orderId, att[a].items) \subseteq order_items
             /\ att[a].pc \in {"clear_cart", "done"} =>
                   \E i \in 1..Len(order_status_history) :
                       /\ order_status_history[i].order_id = att[a].orderId
                       /\ order_status_history[i].status = OrderOf(a).status
             /\ att[a].pc = "done" =>
                   /\ att[a].result = Success(att[a].orderId)
                   /\ \A p \in Products : cart_items[att[a].caller][p] = 0)

\* a COD checkout of two items succeeded although the decrement of the
\* first failed: the stock of the second went down, the first kept its stock
C18_Witness ==
    /\ att["a1"].kind = "cod" /\ att["a1"].pc = "done" /\ att["a2"].pc = "idle"
    /\ Len(att["a1"].items) = 2
    /\ att["a1"].decFailed = {1}
    /\ att["a1"].result.success
    /\ inventory[att["a1"].items[1].product_id] = InitStock
    /\ inventory[att["a1"].items[2].product_id] = InitStock - att["a1"].items[2].quantity

----------------------------------------------------------------------------
(* Properties of RiskEngine.evaluateOrder, under SpecEval *)

\* Under SpecEval no table changes, so the tables of a state are the tables
\* the recorded call read; ev.at is the clock the call read.
Evaluated == ev.n = 1

\* the factors the velocity check can push
IsVelocityFactor(f) == \E k \in 0..(Len(orders) + 1) : f.factor = VelocityFactor(k)
OtherThan(fs, Test(_)) == SelectSeq(fs, LAMBDA f : ~Test(f))
Only(fs, Test(_)) == SelectSeq(fs, Test)

\* C1: the score every call returns is the sum of the points of the
\* factors it returns.
C1_ScoreIsSumOfFactors ==
    Evaluated => ev.result.score = SumPoints(ev.result.factors)

\* a call that triggered several signals
C1_Witness ==
    /\ Evaluated
    /\ Len(ev.result.factors) = 4
    /\ ev.result.score = 170

\* C2: the decision is one of approve, flag, block and follows from the
\* score alone: 70 or more blocks, 30 to 69 flags, less than 30 approves.
C2_DecisionByScore ==
    Evaluated =>
        /\ ev.result.action \in {"approve", "flag", "block"}
        /\ (ev.result.score >= 70) = (ev.result.action = "block")
        /\ (ev.result.score >= 30 /\ ev.result.score < 70) = (ev.result.action = "flag")
        /\ (ev.result.score < 30) = (ev.result.action = "approve")

\* a call whose score is exactly the block threshold
C2_Witness ==
    /\ Evaluated
    /\ ev.result.score = 70
    /\ ev.result.action = "block"

\* the phone has a hard-block entry: a blocked_phones row, or an active
\* blocked_entries row of type phone and severity hard_block
HasHardBlockEntry(phone, now) ==
    \/ blocked_phones[phone] # NoRow
    \/ \E e \in blocked_entries :
          /\ e.type = "phone" /\ e.value = phone
          /\ e.severity = "hard_block" /\ Active(e, now)

\* C3: a call for a phone that has a hard-block blocklist entry returns a
\* score of at least 100 and the decision block, whatever the account age,
\* the amount and the recent orders are.
C3_HardBlockBlocks ==
    Evaluated /\ HasHardBlockEntry(ev.phone, ev.at) =>
        /\ ev.result.score >= 100
        /\ ev.result.action = "block"

\* the factor carries the reason of a blocklist entry
CarriesReason(f, reason) == f.factor = reason \/ f.factor = BlockedFactor(reason)

\* C11: an active hard_block entry whose value is the customer's id (and not
\* the phone) makes the evaluation record a factor of 100 points that
\* carries the entry's reason.
C11_CustomerIdBlock ==
    Evaluated /\ ev.userId # NULL =>
        \A e \in blocked_entries :
            (/\ e.type = "user_id" /\ e.value = ev.userId
             /\ e.severity = "hard_block" /\ Active(e, ev.at)) =>
                \E i \in 1..Len(ev.result.factors) :
                    /\ ev.result.factors[i].points = BlockedPhonePoints
                    /\ CarriesReason(ev.result.factors[i], e.reason)

\* the inputs of the recorded call trigger the new-account, the high-value,
\* the velocity or the hard-block signal
OtherSignalTriggered ==
    \/ /\ ev.userId # NULL /\ users[ev.userId] # NoRow
       /\ ev.at - users[ev.userId].created_at < 24
    \/ ev.totalAmount > 5000
    \/ Cardinality({i \in 1..Len(orders) :
                        /\ orders[i].phone_number = ev.phone
                        /\ ev.at - orders[i].created_at <= 24
                        /\ orders[i].status \notin {"cancelled", "delivered"}}) >= 2
    \/ HasHardBlockEntry(ev.phone, ev.at)
    \/ \E e \in blocked_entries : HardBlocks(e, ev.phone, ev.userId) /\ Active(e, ev.at)

\* an active flag_only entry matches the phone or the customer of the call
FlagOnlyMatch ==
    \E e \in blocked_entries :
        /\ e.severity = "flag_only" /\ Active(e, ev.at)
        /\ \/ e.type = "phone" /\ e.value = ev.phone
           \/ e.type = "user_id" /\ e.value = ev.userId

\* C13: a call that matches an active flag_only entry and triggers no other
\* signal returns one contribution, smaller than the hard-block
\* contribution, and the decision flag.
C13_FlagOnlyFlags ==
    (Evaluated /\ FlagOnlyMatch /\ ~OtherSignalTriggered) =>
        /\ ev.result.score > 0
        /\ ev.result.score < BlockedPhonePoints
        /\ Len(ev.result.factors) = 1
        /\ ev.result.action = "flag"

\* C14: a call of evaluateOrder, with any arguments and after any number of
\* earlier calls, leaves the users, orders, blocked_phones, blocked_entries
\* and risk_rules tables, and every other table, as they were.
C14_PureRead ==
    [][ev' # ev => UNCHANGED <<fulfil, stores, shop>>]_vars

\* a second call that read a user row, two orders and a blocked phone
C14_Witness ==
    /\ Evaluated /\ ev.again
    /\ ev.userId # NULL /\ users[ev.userId] # NoRow
    /\ blocked_phones[ev.phone] # NoRow
    /\ Len(orders) >= 2
    /\ ev.result.action = "block"

IsNewAccountFactor(f) == f.factor = "New Account (<24h)"
IsHighValueFactor(f) == f.factor = "High Value Order"
IsBlockedFactor(f) == \E r \in Reasons : f.factor = BlockedFactor(r)
Has(Test(_)) == \E i \in 1..Len(ev.result.factors) : Test(ev.result.factors[i])

\* the live orders of the phone in the 24 hours before the recorded call
LiveRecent(phone) ==
    Cardinality({i \in 1..Len(orders) :
                    /\ orders[i].phone_number = phone
                    /\ ev.at - orders[i].created_at <= 24
                    /\ orders[i].status \notin {"cancelled", "delivered"}})

\* C16 (under SpecEvalFault): every call returns a result, whichever reads
\* fail. A signal whose read failed adds no factor and no points (the score
\* stays the sum of the factors), and every signal whose read succeeded is
\* evaluated as if nothing had failed.
C16_ReadFailuresFailOpen ==
    Evaluated =>
        /\ ev.result.score \in Nat
        /\ ev.result.action \in {"approve", "flag", "block"}
        /\ ev.result.score = SumPoints(ev.result.factors)
        /\ "users" \in failing => ~Has(IsNewAccountFactor)
        /\ "orders" \in failing => ~Has(IsVelocityFactor)
        /\ "blocked_phones" \in failing => ~Has(IsBlockedFactor)
        /\ Has(IsHighValueFactor) = (ev.totalAmount > 5000)
        /\ "users" \notin failing =>
              Has(IsNewAccountFactor) =
                 (/\ ev.userId # NULL /\ users[ev.userId] # NoRow
                  /\ ev.at - users[ev.userId].created_at < 24)
        /\ "orders" \notin failing =>
              Has(IsVelocityFactor) = (LiveRecent(ev.phone) >= 2)
        /\ "blocked_phones" \notin failing =>
              Has(IsBlockedFactor) = (blocked_phones[ev.phone] # NoRow)

\* the profile and the history reads failed for a new account with three
\* live orders, and the blocklist read still blocked the phone
C16_Witness ==
    /\ Evaluated
    /\ failing = {"users", "orders"}
    /\ ev.userId # NULL /\ users[ev.userId] # NoRow
    /\ ev.at - users[ev.userId].created_at < 24
    /\ LiveRecent(ev.phone) >= 3
    /\ ev.totalAmount > 5000
    /\ ev.result.factors = <<[factor |-> "High Value Order", points |-> 20],
                             [factor |-> BlockedFactor("fraud"), points |-> 100]>>

C9_HighValue ==
    Evaluated =>
        LET IsHigh(f) == f.factor = "High Value Order"
            high == Only(ev.result.factors, IsHigh)
            rest == OtherThan(ev.result.factors, IsHigh)
            added == ev.result.score - SumPoints(rest)
        IN IF ev.totalAmount > 5000
           THEN added = 20 /\ high = <<[factor |-> "High Value Order", points |-> 20]>>
           ELSE added = 0 /\ high = <<>>

\* an amount just over the threshold, nothing else triggered
C9_Witness ==
    /\ Evaluated
    /\ ev.totalAmount = 5001
    /\ ev.result.score = 20
    /\ ev.result.action = "approve"

\* the penalty the configuration names, 10 when the rule is absent
new_user_penalty ==
    IF risk_rules["new_user_penalty"] # NoRow
    THEN risk_rules["new_user_penalty"].value ELSE 10

\* C10: the new-account signal adds new_user_penalty points with the factor
\* "New Account (<24h)" exactly when a customer record is present and the
\* account is less than 24 hours old; an absent customer adds nothing.
C10_NewAccount ==
    Evaluated =>
        LET IsNew(f) == f.factor = "New Account (<24h)"
            new == Only(ev.result.factors, IsNew)
            rest == OtherThan(ev.result.factors, IsNew)
            added == ev.result.score - SumPoints(rest)
            present == ev.userId # NULL /\ users[ev.userId] # NoRow
        IN IF present /\ ev.at - users[ev.userId].created_at < 24
           THEN /\ added = new_user_penalty
                /\ new = <<[factor |-> "New Account (<24h)", points |-> new_user_penalty]>>
           ELSE added = 0 /\ new = <<>>

\* the value the rule store holds for a key at the recorded call, the
\* default when the key is absent
RuleValue(key, default) ==
    IF risk_rules[key] # NoRow THEN risk_rules[key].value ELSE default

\* C24: a call uses the values the rule store holds when it runs: the
\* decision follows risk_threshold_flag and risk_threshold_block, the
\* high-value signal follows high_value_threshold, and the new-account
\* signal adds new_user_penalty points.
C24_RulesReadAtEvaluation ==
    Evaluated =>
        /\ ev.result.action =
              IF ev.result.score >= RuleValue("risk_threshold_block", 70) THEN "block"
              ELSE IF ev.result.score >= RuleValue("risk_threshold_flag", 30) THEN "flag"
              ELSE "approve"
        /\ Has(IsHighValueFactor) <=>
              ev.totalAmount > RuleValue("high_value_threshold", 5000)
        /\ \A i \in 1..Len(ev.result.factors) :
              IsNewAccountFactor(ev.result.factors[i]) =>
                  ev.result.factors[i].points = RuleValue("new_user_penalty", 10)

----------------------------------------------------------------------------
(* Concurrent checkout attempts, under Spec *)

\* the attempt evaluated before the order of the other attempt was inserted
EvaluatedBeforeInsertOf(a, b) == att[a].seqAtEval < att[b].orderId

VelocityFactorsOf(a) == Only(att[a].risk.factors, IsVelocityFactor)

\* C20: the velocity read is not isolated from the inserts of a concurrent
\* attempt. Of two attempts for the same phone that both persisted an
\* order, two that each evaluated before the other inserted saw the same
\* count of live orders and got the same velocity points, while an attempt
\* that evaluated after the other had inserted saw one order more.
C20_VelocityReadNotIsolated ==
    \A a \in Attempts, b \in Attempts :
        (a # b /\ Persisted(a) /\ Persisted(b) /\ att[a].phone = att[b].phone) =>
            /\ (EvaluatedBeforeInsertOf(a, b) /\ EvaluatedBeforeInsertOf(b, a)) =>
                  /\ att[a].recentSeen = att[b].recentSeen
                  /\ VelocityFactorsOf(a) = VelocityFactorsOf(b)
            /\ ~EvaluatedBeforeInsertOf(b, a) =>
                  att[b].recentSeen = att[a].recentSeen + 1

\* both attempts counted the two earlier orders of the phone, got 10
\* velocity points each and persisted their orders; the later of two
\* attempts run one after the other would have counted three and got 40
C20_Witness ==
    /\ att["a1"].phone = att["a2"].phone
    /\ \A a \in Attempts : att[a].pc = "done" /\ att[a].result.success /\ Persisted(a)
    /\ EvaluatedBeforeInsertOf("a1", "a2") /\ EvaluatedBeforeInsertOf("a2", "a1")
    /\ \A a \in Attempts :
          /\ att[a].recentSeen = 2
          /\ VelocityFactorsOf(a) = <<[factor |-> VelocityFactor(2), points |-> 10]>>
    /\ Len(orders) = 4

\* C21: the inventory check is not atomic with the acceptance of the order.
\* Every accepted attempt found each of its items covered by the stock it
\* read, and the step that inserts an order takes nothing from the stock;
\* so two attempts can both be accepted against the same stock (C21_Witness).
C21_StockCheckNotAtomic ==
    /\ [](\A a \in Attempts : Persisted(a) =>
             \A i \in 1..Len(att[a].items) :
                 att[a].items[i].inventory >= att[a].items[i].quantity)
    /\ [][Len(orders') > Len(orders) => inventory' = inventory]_vars

\* two COD checkouts of the same product read the same stock, both were
\* accepted, and together they took more than that stock
C21_Witness ==
    /\ \A a \in Attempts :
          /\ att[a].kind = "cod" /\ att[a].pc = "done" /\ att[a].result.success
          /\ Persisted(a) /\ Len(att[a].items) = 1
    /\ att["a1"].items[1].product_id = att["a2"].items[1].product_id
    /\ att["a1"].items[1].inventory = att["a2"].items[1].inventory
    /\ att["a1"].items[1].quantity + att["a2"].items[1].quantity
          > att["a1"].items[1].inventory
    /\ inventory[att["a1"].items[1].product_id] < 0

----------------------------------------------------------------------------
(* What a checkout returns to the customer, under Spec *)

\* the attempt was rejected for a risk reason: by the fast-fail check of the
\* hard blocklist or by a block decision of the evaluator
RiskRejected(a) ==
    /\ att[a].pc = "done" /\ ~att[a].result.success
    /\ FastFailRejected(a) \/ (Evaluator(a) /\ att[a].risk.blocked)

\* the fixed messages of the two flows for a block decision
GenericRejections ==
    {"This order could not be processed. Please contact support.",
     "Order rejected due to high risk assessment."}

\* C22: an attempt rejected for a risk reason returns a generic message:
\* one of the fixed rejection texts, the same for any two rejected attempts
\* of a flow whatever their scores, factors and blocklist reasons are.
C22_GenericRejection ==
    /\ \A a \in Attempts : RiskRejected(a) => att[a].result.error \in GenericRejections
    /\ \A a \in Attempts, b \in Attempts :
          (RiskRejected(a) /\ RiskRejected(b) /\ att[a].kind = att[b].kind) =>
              att[a].result.error = att[b].result.error

\* C23: a successful attempt returns a success that carries the order id
\* and nothing else, for a flag decision as for an approve decision.
C23_FlagInvisible ==
    \A a \in Attempts : (att[a].pc = "done" /\ att[a].result.success) =>
        /\ att[a].risk.action \in {"approve", "flag"}
        /\ att[a].result = Success(att[a].orderId)

\* a flagged and an approved checkout both succeeded, and their results
\* differ in the order id only
C23_Witness ==
    \E a \in Attempts, b \in Attempts :
        /\ att[a].pc = "done" /\ att[a].result.success /\ att[a].risk.action = "flag"
        /\ att[b].pc = "done" /\ att[b].result.success /\ att[b].risk.action = "approve"
        /\ att[a].kind = att[b].kind
        /\ [att[a].result EXCEPT !.orderId = 0] = [att[b].result EXCEPT !.orderId = 0]

----------------------------------------------------------------------------
(* The outcome fields of an evaluation, under Spec *)

\* C26: in the result of every evaluation an attempt made, flagged is true
\* exactly when action is not approve and blocked exactly when action is
\* block, so blocked implies flagged; and an attempt whose evaluation
\* decided block never inserts an order.
C26_OutcomeFieldsAgree ==
    \A a \in Attempts : Evaluator(a) =>
        /\ att[a].risk.flagged <=> att[a].risk.action # "approve"
        /\ att[a].risk.blocked <=> att[a].risk.action = "block"
        /\ att[a].risk.blocked => att[a].risk.flagged
        /\ att[a].risk.action = "block" =>
              /\ att[a].orderId = 0
              /\ att[a].pc = "done" /\ ~att[a].result.success

\* one attempt ended rejected on a block decision, with flagged and blocked
\* both true, and another persisted an order on a flag decision
C26_Witness ==
    \E a \in Attempts, b \in Attempts :
        /\ att[a].pc = "done" /\ Evaluator(a) /\ att[a].risk.action = "block"
        /\ att[a].risk.flagged /\ att[a].risk.blocked /\ ~att[a].result.success
        /\ att[b].pc = "done" /\ Persisted(b) /\ att[b].risk.action = "flag"
        /\ att[b].risk.flagged /\ ~att[b].risk.blocked

----------------------------------------------------------------------------
(* Properties of fulfilment, under SpecFulfil *)

HistoryOf(id) == SelectSeq(order_status_history, LAMBDA h : h.order_id = id)

\* the order was created with a status that asks for manual confirmation
CreatedFlagged(id) ==
    HistoryOf(id) # <<>> /\ Head(HistoryOf(id)).status \in NeedsConfirmationStatuses

FulfilmentStatuses == {"processing", "shipped", "delivered"}

\* C25: an order created flagged has a fulfilment status (processing,
\* shipped, delivered) only if an administrator confirmed it before. In
\* this specification only shipment and parcel creation and the courier
\* status sync set a fulfilment status.
C25_FlaggedNeedsConfirmation ==
    \A i \in 1..Len(orders) :
        (CreatedFlagged(orders[i].id) /\ orders[i].status \in FulfilmentStatuses)
            => orders[i].id \in confirmed

ShipOps(id) == {o \in OpSlots : ops[o].kind = "createShipment" /\ ops[o].orderId = id}

\* C27: over all createShipment calls for an order the courier's
\* create-order API succeeded at most once and the order has at most one
\* shipment row; a call that began when a shipment row existed failed
\* without calling the courier.
C27_ShipmentOnce ==
    \A id \in OrderArgs :
        /\ Cardinality({o \in ShipOps(id) : ops[o].response # 0}) <= 1
        /\ Cardinality({s \in shipments : s.order_id = id}) <= 1
        /\ \A o \in ShipOps(id) :
              (ops[o].hadShipment /\ ops[o].pc = "done") =>
                  ops[o].calls = 0 /\ ~ops[o].result.success

Quiescent == \A o \in OpSlots : ops[o].pc \in {"idle", "done"}

\* C28: when no status-changing operation is in flight, the last history
\* record of every order carries the order's current status.
C28_HistoryMatchesStatus ==
    Quiescent =>
        \A i \in 1..Len(orders) :
            LET h == HistoryOf(orders[i].id)
            IN h # <<>> /\ h[Len(h)].status = orders[i].status

IsHook(op) == op.kind \in {"POST", "processSteadfastWebhook"}

\* the internal status the handler maps the courier status of a delivery
\* to, NULL when it maps it to none
HookTarget(op) ==
    IF op.kind = "POST" THEN mapSteadfastStatus(op.courierStatus)
    ELSE STEADFAST_STATUS_MAP(op.courierStatus)

\* o takes a step
Steps(o) == ops'[o] # ops[o]

\* C29: a webhook delivery writes the order or its history only when the
\* courier status maps to an internal status other than the one the order
\* had when the handler read it, and then it appends one record; a
\* delivery that starts after an equal one has completed and appended its
\* record finds the status already set and ends without a write.
C29_WebhookIdempotent ==
    /\ [](\A o \in OpSlots : (IsHook(ops[o]) /\ ops[o].pc = "done") =>
              /\ ops[o].appended <= 1
              /\ (HookTarget(ops[o]) = NULL \/ HookTarget(ops[o]) = ops[o].seen) =>
                    ~ops[o].updated /\ ops[o].appended = 0)
    /\ [][\A o \in OpSlots : (Steps(o) /\ IsHook(ops'[o])) =>
              /\ Len(order_status_history') <= Len(order_status_history) + 1
              /\ (orders' # orders \/ order_status_history' # order_status_history) =>
                    /\ HookTarget(ops'[o]) # NULL
                    /\ HookTarget(ops'[o]) # ops'[o].seen
              /\ \A a \in OpSlots \ {o} :
                    ( /\ ops[o].pc = "idle"
                      /\ ops[a].pc = "done" /\ ops[a].appended = 1
                      /\ ops[a].kind = ops'[o].kind
                      /\ ops[a].consignment = ops'[o].consignment
                      /\ ops[a].courierStatus = ops'[o].courierStatus )
                    => ops'[o].pc = "done" /\ orders' = orders
                          /\ order_status_history' = order_status_history]_vars

\* the same delivery arrived twice in a row: the first appended a record,
\* the second found the status it set and appended none
C29_Witness ==
    /\ ops["o1"].kind = "POST" /\ ops["o2"].kind = "POST"
    /\ ops["o1"].pc = "done" /\ ops["o2"].pc = "done"
    /\ ops["o1"].consignment = ops["o2"].consignment
    /\ ops["o1"].courierStatus = "delivered" /\ ops["o2"].courierStatus = "delivered"
    /\ ops["o1"].appended = 1 /\ ops["o1"].seen = "shipped"
    /\ ops["o2"].appended = 0 /\ ops["o2"].seen = "delivered"
    /\ Len(order_status_history) = 3
    /\ orders[1].status = "delivered"

----------------------------------------------------------------------------
(* Termination of createSteadfastParcel, under SpecFulfilLive *)

IsParcel(op) == op.kind = "createSteadfastParcel"

\* C30: a createSteadfastParcel call ends after at most 3 calls of the
\* courier's create-order API. A call that succeeds is the last one. When
\* all 3 fail the operation returns failure, has written no order, and
\* appends one history record that carries the status it read. An order
\* whose status is neither confirmed nor pending is refused with no
\* courier call and no write.
C30_ParcelTerminates ==
    /\ [](\A o \in OpSlots : IsParcel(ops[o]) =>
              /\ ops[o].calls <= 3
              /\ ops[o].pc \in {"store", "history"} => ops[o].calls = ops[o].attempts + 1
              /\ ops[o].pc = "done" =>
                    IF ops[o].result.success
                    THEN ops[o].calls = ops[o].attempts + 1
                    ELSE IF ops[o].calls > 0
                    THEN /\ ops[o].calls = 3 /\ ops[o].attempts = 3
                         /\ ~ops[o].updated /\ ops[o].appended = 1
                    ELSE /\ ops[o].seen \notin {"confirmed", "pending"}
                         /\ ~ops[o].updated /\ ops[o].appended = 0)
    /\ [][\A o \in OpSlots : (Steps(o) /\ IsParcel(ops'[o])) =>
              /\ (ops[o].pc = "fail_log") =>
                    /\ orders' = orders
                    /\ order_status_history' = Append(order_status_history,
                          [order_id |-> ops[o].orderId, status |-> ops[o].seen,
                           notes |-> "Steadfast parcel creation failed after 3 attempts"])
              /\ (ops[o].pc = "idle" /\ FindOrder(ops'[o].orderId) # NoRow
                     /\ FindOrder(ops'[o].orderId).status \notin {"confirmed", "pending"}) =>
                    /\ ops'[o].pc = "done" /\ ~ops'[o].result.success
                    /\ orders' = orders /\ parcels' = parcels
                    /\ order_status_history' = order_status_history
              /\ (ops[o].pc = "call" /\ parcels' # parcels) => ops'[o].pc = "store"]_vars
    /\ \A o \in OpSlots : IsParcel(ops[o]) ~> (IsParcel(ops[o]) /\ ops[o].pc = "done")

\* all three attempts failed: the operation returned failure, the order is
\* as it was and the history has one more record with the same status
C30_Witness ==
    /\ IsParcel(ops["o1"]) /\ ops["o1"].pc = "done" /\ ops["o2"].pc = "idle"
    /\ ~ops["o1"].result.success
    /\ ops["o1"].calls = 3
    /\ orders[1].status = "confirmed" /\ orders[1].admin_notes = "Order confirmed by admin"
    /\ Len(order_status_history) = 3
    /\ order_status_history[3].status = "confirmed"
    /\ parcels = <<>>

====
